---- MODULE Spec2Model ----
(***************************************************************************)
(* Rust-Copartner: the diff parser (python/src/diff_parser.py) and the     *)
(* context collector (python/src/workflow.py).                             *)
(*                                                                         *)
(* Text is modelled at character level: a string is a sequence of          *)
(* one-character strings, so that strip, split, the header patterns and    *)
(* the substring tests are computed as the code computes them.             *)
(* Python's None is the empty sequence of an optional value; a present     *)
(* value v is <<v>>.  Python's 0-based indices are kept 1-based here.      *)
(***************************************************************************)
EXTENDS Integers, Sequences, FiniteSets, TLC

VARIABLES
  pc,                \* position of the running operation
  diff_content,      \* parse: the raw diff text
  lines,             \* parse: diff_content.strip().split('\n')
  i,                 \* parse: index of the line under the scan
  file_changes,      \* parse: FileChange records flushed so far
  current_file,      \* parse: name of the open file section, <<>> for None
  current_changes,   \* parse: changes of the open file section
  old_line_num,      \* parse: running old-file line counter
  new_line_num,      \* parse: running new-file line counter
  result,            \* parse: the DiffResult returned or the ValueError raised
  changes,           \* _detect_modifications: its argument
  mi,                \* _detect_modifications: its loop index i
  processed_changes, \* _detect_modifications: its output list
  rust_files,        \* collect: the project's *.rs files in enumeration order
  identifiers,       \* collect: relevant_identifiers
  max_context_items, \* workflow: self.max_context_items
  fi,                \* collect: index of the file under the loop
  context,           \* collect: the snippets gathered so far
  collected,         \* collect: the list returned, <<>> before it returns
  diff_result,       \* extract_identifiers: file_changes of its argument
  ef,                \* extract_identifiers: index of the file under the loop
  ec,                \* extract_identifiers: index of the change under the loop
  all_identifiers,   \* extract_identifiers: its set identifiers
  filtered_identifiers, \* extract_identifiers: the set returned, <<>> before
  root_exists,       \* file system: the project root is a directory
  disk,              \* file system: the regular files
  caller,            \* workflow: the operation that called parse
  diff_file,         \* process_diff_file: the file at diff_file_path
  fc,                \* _find_relevant_file: index of the file_change tried
  original_file_path, \* process_diff: what _find_relevant_file returned
  workflow_result,   \* process_diff: the WorkflowResult returned
  suggest_calls,     \* process_diff: what each call of generate_suggestion did
  prompt,            \* _find_main_file_for_prompt: its argument
  file_scores,       \* _find_main_file_for_prompt: (file, score) pairs
  main_file,         \* _find_main_file_for_prompt: what it returned
  pending_suggestions, \* daemon: suggestion_id -> stored final_diff
  uuid_count,        \* daemon: how many ids uuid4 has made
  awaiting,          \* daemon: /suggest handlers waiting for process_diff
  issued,            \* history: what each id made by /suggest stands for
  disclosed,         \* history: the ids returned to a client by /suggest
  answered,          \* history: the ids an /apply has acted on
  apply_log,         \* history: the ids whose diff git apply has applied
  response           \* daemon: the response last sent

pvars == <<diff_content, lines, i, file_changes, current_file, current_changes,
           old_line_num, new_line_num, result>>
mvars == <<changes, mi, processed_changes>>
cvars == <<rust_files, identifiers, max_context_items, fi, context, collected>>
evars == <<diff_result, ef, ec, all_identifiers, filtered_identifiers>>
\* the operations other than parse, pairing and collect
dvars == <<root_exists, disk>>
wvars == <<caller, diff_file, fc, original_file_path, workflow_result,
           suggest_calls>>
qvars == <<prompt, file_scores, main_file>>
svars == <<pending_suggestions, uuid_count, awaiting, issued, disclosed,
           answered, apply_log, response>>
ovars == <<evars, dvars, wvars, qvars, svars>>
vars == <<pc, pvars, mvars, cvars, ovars>>

----------------------------------------------------------------------------
(* Bounds of the model *)

MaxLines == 4

MaxChanges == 5

MaxBody == 2

MaxFiles == 2

MaxItems == 2

\* /suggest requests served, and diffs applied, in one run of the daemon
MaxSuggestions == 3

MaxApplied == 3

----------------------------------------------------------------------------
(* Characters and strings *)

NL == "\n"

TAB == "\t"

Whitespace == {" ", NL, TAB}

DigitChars == {"0", "1", "2", "3", "4", "5", "6", "7", "8", "9"}

None == <<>>

Some(v) == <<v>>

RECURSIVE lstrip(_)
lstrip(s) ==
  IF s # <<>> /\ Head(s) \in Whitespace THEN lstrip(Tail(s)) ELSE s

RECURSIVE rstrip(_)
rstrip(s) ==
  IF s # <<>> /\ s[Len(s)] \in Whitespace
    THEN rstrip(SubSeq(s, 1, Len(s) - 1))
    ELSE s

strip(s) == rstrip(lstrip(s))

RECURSIVE split(_, _)
split(s, sep) ==
  IF \E k \in 1..Len(s) : s[k] = sep
    THEN LET k == CHOOSE n \in 1..Len(s) :
                    s[n] = sep /\ \A m \in 1..(n - 1) : s[m] # sep
         IN  <<SubSeq(s, 1, k - 1)>> \o split(SubSeq(s, k + 1, Len(s)), sep)
    ELSE <<s>>

RECURSIVE join(_, _)
join(sep, ls) ==
  IF ls = <<>> THEN <<>>
  ELSE IF Len(ls) = 1 THEN ls[1]
  ELSE ls[1] \o <<sep>> \o join(sep, Tail(ls))

startswith(s, p) == Len(s) >= Len(p) /\ SubSeq(s, 1, Len(p)) = p

DropPrefix(s, n) == SubSeq(s, n + 1, Len(s))

DigitValue(c) ==
  CASE c = "0" -> 0 [] c = "1" -> 1 [] c = "2" -> 2 [] c = "3" -> 3
    [] c = "4" -> 4 [] c = "5" -> 5 [] c = "6" -> 6 [] c = "7" -> 7
    [] c = "8" -> 8 [] c = "9" -> 9

RECURSIVE int(_)
int(ds) ==
  IF ds = <<>> THEN 0
  ELSE 10 * int(SubSeq(ds, 1, Len(ds) - 1)) + DigitValue(ds[Len(ds)])

\* first position at or after k whose character is not a digit (\d+ and \d*
\* are greedy and nothing after them can start with a digit)
RECURSIVE DigitRunEnd(_, _)
DigitRunEnd(s, k) ==
  IF k <= Len(s) /\ s[k] \in DigitChars THEN DigitRunEnd(s, k + 1) ELSE k

CharAt(s, k) == IF k >= 1 /\ k <= Len(s) THEN s[k] ELSE ""

----------------------------------------------------------------------------
(* DiffParser.__init__: the three line patterns *)

FileHeaderPrefix == <<"-", "-", "-", " ", "a", "/">>

NewFilePrefix == <<"+", "+", "+", " ", "b", "/">>

HunkPrefix == <<"@", "@", " ", "-">>

\* ^--- a/(.+)$ : [matched, group1]
file_header_pattern(line) ==
  IF startswith(line, FileHeaderPrefix) /\ Len(line) > Len(FileHeaderPrefix)
    THEN [matched |-> TRUE, group1 |-> DropPrefix(line, Len(FileHeaderPrefix))]
    ELSE [matched |-> FALSE, group1 |-> <<>>]

\* ^\+\+\+ b/(.+)$
new_file_pattern(line) ==
  IF startswith(line, NewFilePrefix) /\ Len(line) > Len(NewFilePrefix)
    THEN [matched |-> TRUE, group1 |-> DropPrefix(line, Len(NewFilePrefix))]
    ELSE [matched |-> FALSE, group1 |-> <<>>]

\* ^@@ -(\d+),?\d* \+(\d+),?\d* @@
hunk_header_pattern(line) ==
  LET a1 == Len(HunkPrefix) + 1
      e1 == DigitRunEnd(line, a1)
      c1 == IF CharAt(line, e1) = "," THEN e1 + 1 ELSE e1
      s1 == DigitRunEnd(line, c1)
      a2 == s1 + 2
      e2 == DigitRunEnd(line, a2)
      c2 == IF CharAt(line, e2) = "," THEN e2 + 1 ELSE e2
      s2 == DigitRunEnd(line, c2)
      ok == /\ startswith(line, HunkPrefix)
            /\ e1 > a1
            /\ CharAt(line, s1) = " " /\ CharAt(line, s1 + 1) = "+"
            /\ e2 > a2
            /\ CharAt(line, s2) = " "
            /\ CharAt(line, s2 + 1) = "@" /\ CharAt(line, s2 + 2) = "@"
  IN  IF ok
        THEN [matched |-> TRUE,
              group1 |-> int(SubSeq(line, a1, e1 - 1)),
              group2 |-> int(SubSeq(line, a2, e2 - 1))]
        ELSE [matched |-> FALSE, group1 |-> 0, group2 |-> 0]

----------------------------------------------------------------------------
(* The data model: ChangeType, DiffChange, FileChange *)

ADDITION == "addition"

DELETION == "deletion"

MODIFICATION == "modification"

CONTEXT == "context"

DiffChange(n, t, old, new) ==
  [line_number |-> n, change_type |-> t, old_line |-> old, new_line |-> new]

FileChange(name, chs) ==
  [filename |-> name,
   old_filename |-> <<"a", "/">> \o name,
   new_filename |-> <<"b", "/">> \o name,
   changes |-> chs]

----------------------------------------------------------------------------
(* DiffParser._detect_modifications *)

\* mutant: a Deletion and an Addition that end the list are not paired
IsModificationPair_NotLast(chs, k) ==
  /\ chs[k].change_type = DELETION
  /\ k + 1 < Len(chs)
  /\ chs[k + 1].change_type = ADDITION

\* the condition of the loop's if
IsModificationPair(chs, k) ==
  /\ chs[k].change_type = DELETION
  /\ k + 1 <= Len(chs)
  /\ chs[k + 1].change_type = ADDITION

\* mutant: the Modification takes its new text from the Deletion, which has
\* none
MakeModification_NewFromDeletion(chs, k) ==
  DiffChange(chs[k].line_number, MODIFICATION,
             chs[k].old_line, chs[k].new_line)

\* mutant: the Modification takes the Addition's line number
MakeModification_AdditionLine(chs, k) ==
  DiffChange(chs[k + 1].line_number, MODIFICATION,
             chs[k].old_line, chs[k + 1].new_line)

\* the Modification built from chs[k] and chs[k + 1]
MakeModification(chs, k) ==
  DiffChange(chs[k].line_number, MODIFICATION,
             chs[k].old_line, chs[k + 1].new_line)

\* mutant: the walk advances past the Deletion only, so the Addition of a
\* merged pair is visited again
DetectStep_AdvanceOne(chs, k, out) ==
  IF IsModificationPair(chs, k)
    THEN [i |-> k + 1, processed_changes |-> Append(out, MakeModification(chs, k))]
    ELSE [i |-> k + 1, processed_changes |-> Append(out, chs[k])]

\* one iteration of the while loop: the new (i, processed_changes)
DetectStep(chs, k, out) ==
  IF IsModificationPair(chs, k)
    THEN [i |-> k + 2, processed_changes |-> Append(out, MakeModification(chs, k))]
    ELSE [i |-> k + 1, processed_changes |-> Append(out, chs[k])]

RECURSIVE DetectLoop(_, _, _)
DetectLoop(chs, k, out) ==
  IF k <= Len(chs)
    THEN LET s == DetectStep(chs, k, out)
         IN  DetectLoop(chs, s.i, s.processed_changes)
    ELSE out

_detect_modifications(chs) == DetectLoop(chs, 1, <<>>)

----------------------------------------------------------------------------
(* DiffParser.parse: the pieces of the scan loop *)

ErrExpectedPlus == "Invalid diff format: expected +++ line after ---"

ErrNoFileChanges == "Invalid diff format: no valid file changes found"

NoResult == [status |-> "none", error |-> "", file_changes |-> <<>>]

Returned(fcs) == [status |-> "ok", error |-> "", file_changes |-> fcs]

Raised(msg) == [status |-> "error", error |-> msg, file_changes |-> <<>>]

\* mutant: the model is keyed by file name, so a second section of a file
\* is merged into the first
FlushFile_ByName(fcs, cf, cc) ==
  IF cf = None THEN fcs
  ELSE IF \E k \in 1..Len(fcs) : fcs[k].filename = cf
    THEN [k \in 1..Len(fcs) |->
            IF fcs[k].filename = cf
              THEN [fcs[k] EXCEPT !.changes = fcs[k].changes \o cc]
              ELSE fcs[k]]
    ELSE Append(fcs, FileChange(cf, cc))

\* "if current_file: file_changes.append(FileChange(...))"
FlushFile(fcs, cf, cc) ==
  IF cf # None THEN Append(fcs, FileChange(cf, cc)) ELSE fcs

\* after "i += 1": "if i < len(lines): ... if not new_file_match: raise"
\* (k is the index of the --- line)
PlusLineRejected(ls, k) ==
  k + 1 <= Len(ls) /\ ~new_file_pattern(ls[k + 1]).matched

IsFileHeader(line) == file_header_pattern(line).matched

IsHunkHeader(line) == hunk_header_pattern(line).matched

IsDeletionLine(line) == startswith(line, <<"-">>)

IsAdditionLine(line) == startswith(line, <<"+">>)

\* "elif line.startswith(' ') or (not line.startswith('@@') and current_file)"
IsContextLine(line, cf) ==
  startswith(line, <<" ">>) \/ (~startswith(line, <<"@", "@">>) /\ cf # None)

\* "line[1:] if line.startswith(' ') else line"
ContextText(line) ==
  IF startswith(line, <<" ">>) THEN DropPrefix(line, 1) ELSE line

\* mutant: a Deletion is numbered with the new counter
DeletionChange_NewCounter(line, n) ==
  DiffChange(new_line_num, DELETION, Some(DropPrefix(line, 1)), None)

DeletionChange(line, n) == DiffChange(n, DELETION, Some(DropPrefix(line, 1)), None)

AdditionChange(line, n) == DiffChange(n, ADDITION, None, Some(DropPrefix(line, 1)))

ContextChange(line, n) ==
  DiffChange(n, CONTEXT, Some(ContextText(line)), Some(ContextText(line)))

\* "for file_change in file_changes: file_change.changes = ..."
PostProcess(fcs) ==
  [k \in 1..Len(fcs) |->
     [fcs[k] EXCEPT !.changes = _detect_modifications(fcs[k].changes)]]

\* mutant: an empty model is returned instead of being rejected
FinishResult_NoCheck(fcs) == Returned(PostProcess(fcs))

\* lines 154-161: "if not file_changes and diff_content.strip(): raise ...",
\* then the pairing pass and the return
FinishResult(fcs) ==
  IF fcs = <<>> THEN Raised(ErrNoFileChanges) ELSE Returned(PostProcess(fcs))

----------------------------------------------------------------------------
(* DiffParser.parse as a state machine: one action per branch of the loop *)

Scanning == pc = "scan" /\ i <= Len(lines)

\* lines 63-64: empty or whitespace-only input
ParseBlank ==
  /\ pc = "start"
  /\ strip(diff_content) = <<>>
  /\ result' = Returned(<<>>)
  /\ pc' = "done"
  /\ UNCHANGED <<diff_content, lines, i, file_changes, current_file,
                 current_changes, old_line_num, new_line_num>>
  /\ UNCHANGED <<mvars, cvars, ovars>>

\* lines 66-73
ParseStart ==
  /\ pc = "start"
  /\ strip(diff_content) # <<>>
  /\ lines' = split(strip(diff_content), NL)
  /\ file_changes' = <<>>
  /\ current_file' = None
  /\ current_changes' = <<>>
  /\ old_line_num' = 0
  /\ new_line_num' = 0
  /\ i' = 1
  /\ pc' = "scan"
  /\ UNCHANGED <<diff_content, result>>
  /\ UNCHANGED <<mvars, cvars, ovars>>

\* lines 78-101: a "--- a/<name>" line and the line after it
FileHeaderLine ==
  /\ Scanning
  /\ IsFileHeader(lines[i])
  /\ file_changes' = FlushFile(file_changes, current_file, current_changes)
  /\ current_file' = file_header_pattern(lines[i]).group1
  /\ current_changes' = <<>>
  /\ IF PlusLineRejected(lines, i)
       THEN /\ i' = i + 1
            /\ result' = Raised(ErrExpectedPlus)
            /\ pc' = "error"
       ELSE /\ i' = i + 2
            /\ UNCHANGED <<result, pc>>
  /\ UNCHANGED <<diff_content, lines, old_line_num, new_line_num>>
  /\ UNCHANGED <<mvars, cvars, ovars>>

\* lines 104-109
HunkHeaderLine ==
  /\ Scanning
  /\ ~IsFileHeader(lines[i])
  /\ IsHunkHeader(lines[i])
  /\ old_line_num' = hunk_header_pattern(lines[i]).group1
  /\ new_line_num' = hunk_header_pattern(lines[i]).group2
  /\ i' = i + 1
  /\ UNCHANGED <<pc, diff_content, lines, file_changes, current_file,
                 current_changes, result>>
  /\ UNCHANGED <<mvars, cvars, ovars>>

\* lines 112-120
DeletionLine ==
  /\ Scanning
  /\ ~IsFileHeader(lines[i]) /\ ~IsHunkHeader(lines[i])
  /\ IsDeletionLine(lines[i])
  /\ current_changes' = Append(current_changes, DeletionChange(lines[i], old_line_num))
  /\ old_line_num' = old_line_num + 1
  /\ i' = i + 1
  /\ UNCHANGED <<pc, diff_content, lines, file_changes, current_file,
                 new_line_num, result>>
  /\ UNCHANGED <<mvars, cvars, ovars>>

\* lines 122-130
AdditionLine ==
  /\ Scanning
  /\ ~IsFileHeader(lines[i]) /\ ~IsHunkHeader(lines[i])
  /\ ~IsDeletionLine(lines[i])
  /\ IsAdditionLine(lines[i])
  /\ current_changes' = Append(current_changes, AdditionChange(lines[i], new_line_num))
  /\ new_line_num' = new_line_num + 1
  /\ i' = i + 1
  /\ UNCHANGED <<pc, diff_content, lines, file_changes, current_file,
                 old_line_num, result>>
  /\ UNCHANGED <<mvars, cvars, ovars>>

\* lines 132-141
ContextLine ==
  /\ Scanning
  /\ ~IsFileHeader(lines[i]) /\ ~IsHunkHeader(lines[i])
  /\ ~IsDeletionLine(lines[i]) /\ ~IsAdditionLine(lines[i])
  /\ IsContextLine(lines[i], current_file)
  /\ current_changes' = Append(current_changes, ContextChange(lines[i], old_line_num))
  /\ old_line_num' = old_line_num + 1
  /\ new_line_num' = new_line_num + 1
  /\ i' = i + 1
  /\ UNCHANGED <<pc, diff_content, lines, file_changes, current_file, result>>
  /\ UNCHANGED <<mvars, cvars, ovars>>

\* line 143 alone: no branch of the if/elif chain takes the line
IgnoredLine ==
  /\ Scanning
  /\ ~IsFileHeader(lines[i]) /\ ~IsHunkHeader(lines[i])
  /\ ~IsDeletionLine(lines[i]) /\ ~IsAdditionLine(lines[i])
  /\ ~IsContextLine(lines[i], current_file)
  /\ i' = i + 1
  /\ UNCHANGED <<pc, diff_content, lines, file_changes, current_file,
                 current_changes, old_line_num, new_line_num, result>>
  /\ UNCHANGED <<mvars, cvars, ovars>>

\* lines 145-161: flush the last file, reject an empty model, pair, return
ParseFinish ==
  /\ pc = "scan"
  /\ i > Len(lines)
  /\ LET fcs == FlushFile(file_changes, current_file, current_changes)
     IN  /\ file_changes' = fcs
         /\ result' = FinishResult(fcs)
         /\ pc' = IF FinishResult(fcs).status = "ok" THEN "done" ELSE "error"
  /\ UNCHANGED <<diff_content, lines, i, current_file, current_changes,
                 old_line_num, new_line_num>>
  /\ UNCHANGED <<mvars, cvars, ovars>>

----------------------------------------------------------------------------
(* Inputs of the parser *)

SeqsUpTo(S, n) == UNION {[1..k -> S] : k \in 0..n}

LineHeaderX == FileHeaderPrefix \o <<"x">>

LineHeaderY == FileHeaderPrefix \o <<"y">>

LinePlusX == NewFilePrefix \o <<"x">>

LineHunk == <<"@", "@", " ", "-", "3", ",", "2", " ", "+", "5", " ", "@", "@">>

LineDel == <<"-", "p">>

LineAdd == <<"+", "q">>

LineCtx == <<" ", "c">>

LineBlank == <<" ">>

LineAtAt == <<"@", "@", " ", "z">>

LineOther == <<"w">>

DiffLines ==
  {LineHeaderX, LineHeaderY, LinePlusX, LineHunk, LineDel, LineAdd, LineCtx,
   LineBlank, LineAtAt, LineOther}

IdleM == changes = <<>> /\ mi = 1 /\ processed_changes = <<>>

IdleC ==
  /\ rust_files = <<>> /\ identifiers = {} /\ max_context_items = 0
  /\ fi = 1 /\ context = <<>> /\ collected = None

IdleP ==
  /\ diff_content = <<>> /\ lines = <<>> /\ i = 1 /\ file_changes = <<>>
  /\ current_file = None /\ current_changes = <<>>
  /\ old_line_num = 0 /\ new_line_num = 0 /\ result = NoResult

IdleE ==
  /\ diff_result = <<>> /\ ef = 1 /\ ec = 1
  /\ all_identifiers = {} /\ filtered_identifiers = None

IdleD == root_exists = FALSE /\ disk = {}

IdleW ==
  /\ caller = "" /\ diff_file = [exists |-> FALSE, readable |-> FALSE, content |-> <<>>]
  /\ fc = 1 /\ original_file_path = None
  /\ workflow_result = None /\ suggest_calls = <<>>

IdleQ == prompt = <<>> /\ file_scores = <<>> /\ main_file = None

NoResponse == [endpoint |-> "none"]

IdleS ==
  /\ pending_suggestions = {} /\ uuid_count = 0 /\ awaiting = 0
  /\ issued = <<>> /\ disclosed = {} /\ answered = {} /\ apply_log = <<>>
  /\ response = NoResponse

IdleO == IdleE /\ IdleD /\ IdleW /\ IdleQ /\ IdleS

\* what may follow the two header lines of a well-formed file section
BodyLines == {LineHunk, LineDel, LineAdd, LineCtx, LineOther}

\* a "--- a/<name>" line, a "+++ b/x" line and up to MaxBody body lines
FileSections ==
  {<<h, LinePlusX>> \o b :
     h \in {LineHeaderX, LineHeaderY}, b \in SeqsUpTo(BodyLines, MaxBody)}

\* a file section whose body starts with a hunk header
HunkSections ==
  {<<LineHeaderX, LinePlusX, LineHunk>> \o b : b \in SeqsUpTo(BodyLines, MaxBody)}

\* a file header with metadata after a tab, as diff -u writes it
LineHeaderTab == FileHeaderPrefix \o <<"x", TAB, "m">>

LinePlusTab == NewFilePrefix \o <<"x", TAB, "n">>

\* a file section whose header lines carry metadata
TabSections ==
  {<<LineHeaderTab, p>> \o b :
     p \in {LinePlusX, LinePlusTab}, b \in SeqsUpTo(BodyLines, MaxBody)}

\* a file section of up to MaxLines "-" and "+" lines
ChangeSections ==
  {<<LineHeaderX, LinePlusX>> \o b : b \in SeqsUpTo({LineDel, LineAdd}, MaxLines)}

\* every diff of up to MaxLines lines, every diff of two file sections,
\* every diff of one file section that starts with a hunk header, every
\* diff of one file section whose header carries metadata, and every diff
\* of one file section of "-" and "+" lines
DiffInputs ==
  SeqsUpTo(DiffLines, MaxLines) \cup
  {s1 \o s2 : s1 \in FileSections, s2 \in FileSections} \cup
  HunkSections \cup TabSections \cup ChangeSections

InitParse ==
  /\ pc = "start"
  /\ \E ls \in DiffInputs : diff_content = join(NL, ls)
  /\ lines = <<>> /\ i = 1 /\ file_changes = <<>>
  /\ current_file = None /\ current_changes = <<>>
  /\ old_line_num = 0 /\ new_line_num = 0 /\ result = NoResult
  /\ IdleM /\ IdleC /\ IdleO

NextParse ==
  \/ ParseBlank
  \/ ParseStart
  \/ FileHeaderLine
  \/ HunkHeaderLine
  \/ DeletionLine
  \/ AdditionLine
  \/ ContextLine
  \/ IgnoredLine
  \/ ParseFinish

SpecParse == InitParse /\ [][NextParse]_vars

----------------------------------------------------------------------------
(* _detect_modifications on its own: one action per branch of its loop *)

PairD1 == DiffChange(1, DELETION, Some(<<"p">>), None)

PairD2 == DiffChange(2, DELETION, Some(<<"q">>), None)

PairA1 == DiffChange(3, ADDITION, None, Some(<<"r">>))

PairA2 == DiffChange(4, ADDITION, None, Some(<<"s">>))

PairCtx == DiffChange(5, CONTEXT, Some(<<"c">>), Some(<<"c">>))

PairMod == DiffChange(6, MODIFICATION, Some(<<"p">>), Some(<<"r">>))

PairChanges == {PairD1, PairD2, PairA1, PairA2, PairCtx, PairMod}

\* lines 180-192: the if branch
PairMerge ==
  /\ pc = "pair"
  /\ mi <= Len(changes)
  /\ IsModificationPair(changes, mi)
  /\ mi' = DetectStep(changes, mi, processed_changes).i
  /\ processed_changes' = DetectStep(changes, mi, processed_changes).processed_changes
  /\ UNCHANGED <<pc, changes, pvars, cvars, ovars>>

\* lines 193-195: the else branch
PairCopy ==
  /\ pc = "pair"
  /\ mi <= Len(changes)
  /\ ~IsModificationPair(changes, mi)
  /\ mi' = DetectStep(changes, mi, processed_changes).i
  /\ processed_changes' = DetectStep(changes, mi, processed_changes).processed_changes
  /\ UNCHANGED <<pc, changes, pvars, cvars, ovars>>

\* line 197
PairReturn ==
  /\ pc = "pair"
  /\ mi > Len(changes)
  /\ pc' = "paired"
  /\ UNCHANGED <<mvars, pvars, cvars, ovars>>

InitPair ==
  /\ pc = "pair"
  /\ changes \in SeqsUpTo(PairChanges, MaxChanges)
  /\ mi = 1
  /\ processed_changes = <<>>
  /\ IdleP /\ IdleC /\ IdleO

NextPair == PairMerge \/ PairCopy \/ PairReturn

SpecPair == InitPair /\ [][NextPair]_vars

----------------------------------------------------------------------------
(* Claims about the modification-pairing pass *)

TypesAt(chs, k, ts) ==
  /\ k >= 1 /\ k + Len(ts) - 1 <= Len(chs)
  /\ \A n \in 1..Len(ts) : chs[k + n - 1].change_type = ts[n]

\* a block Deletion, Deletion, Addition, Addition starts at position k
IsBlockDDAA(chs, k) == TypesAt(chs, k, <<DELETION, DELETION, ADDITION, ADDITION>>)

Paired(d, a) ==
  [line_number |-> d.line_number, change_type |-> MODIFICATION,
   old_line |-> d.old_line, new_line |-> a.new_line]

ContainsAt(out, m, piece) ==
  m >= 1 /\ m + Len(piece) - 1 <= Len(out) /\ SubSeq(out, m, m + Len(piece) - 1) = piece

\* C3 (as stated): when the pass has returned, every block D1 D2 A1 A2 of its
\* input has become the two Modifications D1/A1 and D2/A2 in its output, and
\* no Deletion or Addition of the block is left in the output.
C3_FifoPairing ==
  pc = "paired" =>
    \A k \in 1..Len(changes) :
      IsBlockDDAA(changes, k) =>
        /\ \E m \in 1..Len(processed_changes) :
             ContainsAt(processed_changes, m,
                        <<Paired(changes[k], changes[k + 2]),
                          Paired(changes[k + 1], changes[k + 3])>>)
        /\ \A n \in 1..Len(processed_changes) :
             processed_changes[n] \notin
               {changes[k], changes[k + 1], changes[k + 2], changes[k + 3]}

\* C3 (amended): when the pass has returned, every block D1 D2 A1 A2 of its
\* input has become, in its output, the three adjacent changes D1 (still a
\* Deletion), one Modification pairing D2 with A1, and A2 (still an Addition).
C3_AdjacentPairing ==
  pc = "paired" =>
    \A k \in 1..Len(changes) :
      IsBlockDDAA(changes, k) =>
        \E m \in 1..Len(processed_changes) :
          ContainsAt(processed_changes, m,
                     <<changes[k], Paired(changes[k + 1], changes[k + 2]),
                       changes[k + 3]>>)

\* the pass has returned on an input that holds a block D1 D2 A1 A2 with
\* four different changes
C3_Witness ==
  /\ pc = "paired"
  /\ \E k \in 1..Len(changes) :
       /\ IsBlockDDAA(changes, k)
       /\ changes[k] # changes[k + 1]
       /\ changes[k + 2] # changes[k + 3]

\* what one step of the walk does to the output and to the index
WalkStep ==
  (pc = "pair" /\ mi <= Len(changes)) =>
    IF /\ changes[mi].change_type = DELETION
       /\ mi < Len(changes)
       /\ changes[mi + 1].change_type = ADDITION
      THEN /\ processed_changes' =
                Append(processed_changes, Paired(changes[mi], changes[mi + 1]))
           /\ mi' = mi + 2
      ELSE /\ processed_changes' = Append(processed_changes, changes[mi])
           /\ mi' = mi + 1

\* C4: each step of the walk either merges a Deletion and the Addition right
\* after it into one Modification (the Deletion's old text and line number,
\* the Addition's new text) and advances by two, or copies the current change
\* to the end of the output and advances by one.
C4_PairingWalk == [][WalkStep]_vars

\* the walk has merged a pair and copied another change
C4_Witness ==
  /\ pc = "paired"
  /\ \A n \in 1..Len(changes) : changes[n].change_type # MODIFICATION
  /\ \E n \in 1..Len(processed_changes) :
       processed_changes[n].change_type = MODIFICATION
  /\ \E n \in 1..Len(processed_changes) :
       processed_changes[n].change_type = CONTEXT
  /\ Len(processed_changes) = Len(changes) - 1

----------------------------------------------------------------------------
(* Claims about parse *)

\* the lines parse scans
InputLines ==
  IF strip(diff_content) = <<>> THEN <<>> ELSE split(strip(diff_content), NL)

Finished == pc \in {"done", "error"}

PlusLineFollows(L, k) == k + 1 <= Len(L) /\ new_file_pattern(L[k + 1]).matched

HeaderPositions(L) == {k \in 1..Len(L) : IsFileHeader(L[k])}

\* C5: when parse has ended on an input in which some "--- a/<name>" line is
\* not immediately followed by a "+++ b/..." line (another line follows, or
\* none does), it has ended by raising.
C5_MissingPlusRejected ==
  Finished =>
    ((\E k \in HeaderPositions(InputLines) : ~PlusLineFollows(InputLines, k))
       => result.status = "error")

\* C6: when parse has ended on an input in which a "--- a/X" line is
\* immediately followed by a "+++ b/Y" line with Y different from X, it has
\* ended by raising.
C6_MismatchedPlusRejected ==
  Finished =>
    ((\E k \in HeaderPositions(InputLines) :
        /\ PlusLineFollows(InputLines, k)
        /\ new_file_pattern(InputLines[k + 1]).group1 #
             file_header_pattern(InputLines[k]).group1)
       => result.status = "error")

\* C7: when parse has ended on an input without any "--- a/<name>" line, it
\* has returned the empty model if the input is blank and has raised "no
\* valid file changes found" otherwise.
C7_NoHeader ==
  (Finished /\ HeaderPositions(InputLines) = {}) =>
    IF strip(diff_content) = <<>>
      THEN pc = "done" /\ result = Returned(<<>>)
      ELSE pc = "error" /\ result = Raised(ErrNoFileChanges)

\* parse has raised on a non-blank input of several lines without a header,
\* one of them a Deletion line
C7_Witness ==
  /\ pc = "error"
  /\ HeaderPositions(InputLines) = {}
  /\ Len(InputLines) >= 2
  /\ \E k \in 1..Len(InputLines) : IsDeletionLine(InputLines[k])
  /\ result.error = ErrNoFileChanges

RECURSIVE SortedSeq(_)
SortedSeq(S) ==
  IF S = {} THEN <<>>
  ELSE LET m == CHOOSE x \in S : \A y \in S : x <= y
       IN  <<m>> \o SortedSeq(S \ {m})

\* the body lines of the n-th file section: after its two header lines, up to
\* the next "--- a/" line
SectionBody(L, hs, n) ==
  SubSeq(L, hs[n] + 2, IF n < Len(hs) THEN hs[n + 1] - 1 ELSE Len(L))

\* what a body line of an open file section stands for, its number left out
BodyLineChange(line) ==
  IF IsHunkHeader(line) THEN <<>>
  ELSE IF startswith(line, <<"-">>)
    THEN <<DiffChange(0, DELETION, Some(DropPrefix(line, 1)), None)>>
  ELSE IF startswith(line, <<"+">>)
    THEN <<DiffChange(0, ADDITION, None, Some(DropPrefix(line, 1)))>>
  ELSE IF startswith(line, <<"@", "@">>) THEN <<>>
  ELSE LET t == IF Head(line) = " " THEN Tail(line) ELSE line
       IN  <<DiffChange(0, CONTEXT, Some(t), Some(t))>>

RECURSIVE BodyChanges(_)
BodyChanges(body) ==
  IF body = <<>> THEN <<>>
  ELSE BodyLineChange(Head(body)) \o BodyChanges(Tail(body))

Unnumbered(chs) == [k \in 1..Len(chs) |-> [chs[k] EXCEPT !.line_number = 0]]

\* C8: when parse has returned, its model holds one FileChange per file
\* section of the input, in the order of the sections, each named as its
\* "--- a/" line and holding the changes of the body lines of its own
\* section (paired), also when two sections name the same file.
C8_OneFileChangePerSection ==
  pc = "done" =>
    LET L == InputLines
        hs == SortedSeq(HeaderPositions(L))
        fcs == result.file_changes
    IN  /\ Len(fcs) = Len(hs)
        /\ \A n \in 1..Len(hs) :
             /\ fcs[n].filename = file_header_pattern(L[hs[n]]).group1
             /\ Unnumbered(fcs[n].changes) =
                  _detect_modifications(BodyChanges(SectionBody(L, hs, n)))

\* parse has returned two FileChanges of the same file, with different,
\* non-empty changes
C8_Witness ==
  /\ pc = "done"
  /\ Len(result.file_changes) = 2
  /\ result.file_changes[1].filename = result.file_changes[2].filename
  /\ result.file_changes[1].changes # <<>>
  /\ result.file_changes[2].changes # <<>>
  /\ Unnumbered(result.file_changes[1].changes) #
       Unnumbered(result.file_changes[2].changes)
  /\ \A k \in HeaderPositions(InputLines) : PlusLineFollows(InputLines, k)

ChangeWeight(ch) == IF ch.change_type = MODIFICATION THEN 2 ELSE 1

RECURSIVE ChangesWeight(_)
ChangesWeight(chs) ==
  IF chs = <<>> THEN 0 ELSE ChangeWeight(Head(chs)) + ChangesWeight(Tail(chs))

RECURSIVE ModelWeight(_)
ModelWeight(fcs) ==
  IF fcs = <<>> THEN 0
  ELSE ChangesWeight(Head(fcs).changes) + ModelWeight(Tail(fcs))

\* the lines of the diff as given
RawLines == split(diff_content, NL)

\* the lines of the file sections that are neither one of the two header
\* lines of a section nor a hunk header
BodyLinePositions(L) ==
  {k \in 1..Len(L) :
     /\ \E h \in HeaderPositions(L) : h < k
     /\ k \notin HeaderPositions(L)
     /\ (k - 1) \notin HeaderPositions(L)
     /\ ~IsHunkHeader(L[k])}

\* C9: when parse has returned, Context + 2 * Modification + Addition +
\* Deletion, counted over the whole model, is the number of body lines of
\* the file sections of the input.
C9_LineAccounting ==
  pc = "done" =>
    ModelWeight(result.file_changes) = Cardinality(BodyLinePositions(RawLines))

WellShaped(ch) ==
  CASE ch.change_type = ADDITION -> ch.new_line # None /\ ch.old_line = None
    [] ch.change_type = DELETION -> ch.old_line # None /\ ch.new_line = None
    [] ch.change_type = MODIFICATION -> ch.old_line # None /\ ch.new_line # None
    [] ch.change_type = CONTEXT ->
         ch.old_line # None /\ ch.new_line # None /\ ch.old_line = ch.new_line

\* C10: when parse has returned, every change of every FileChange of its
\* model has the texts of its type: an Addition a new text only, a Deletion
\* an old text only, a Modification both, a Context change both and equal.
C10_ChangeShapes ==
  pc = "done" =>
    \A n \in 1..Len(result.file_changes) :
      \A k \in 1..Len(result.file_changes[n].changes) :
        WellShaped(result.file_changes[n].changes[k])

\* parse has returned a model with a Modification and a change of another
\* type
C10_Witness ==
  /\ pc = "done"
  /\ \E n \in 1..Len(result.file_changes) :
       \E k \in 1..Len(result.file_changes[n].changes) :
         result.file_changes[n].changes[k].change_type = MODIFICATION
  /\ \E n \in 1..Len(result.file_changes) :
       \E k \in 1..Len(result.file_changes[n].changes) :
         result.file_changes[n].changes[k].change_type
           \in {ADDITION, DELETION, CONTEXT}

----------------------------------------------------------------------------
(* More string operations, for the context collector *)

UpperChars ==
  <<"A", "B", "C", "D", "E", "F", "G", "H", "I", "J", "K", "L", "M",
    "N", "O", "P", "Q", "R", "S", "T", "U", "V", "W", "X", "Y", "Z">>

LowerChars ==
  <<"a", "b", "c", "d", "e", "f", "g", "h", "i", "j", "k", "l", "m",
    "n", "o", "p", "q", "r", "s", "t", "u", "v", "w", "x", "y", "z">>

Range(f) == {f[k] : k \in DOMAIN f}

\* \w
WordChars == Range(UpperChars) \cup Range(LowerChars) \cup DigitChars \cup {"_"}

\* letters outside ASCII, each kept as one character: e acute (U+00E9), and
\* the Greek capital sigma (U+03A3) with its two small forms, sigma (U+03C3)
\* and final sigma (U+03C2)
EAcute == "U+00E9"

Sigma == "U+03A3"

SmallSigma == "U+03C3"

FinalSigma == "U+03C2"

NonAsciiLetters == {EAcute, Sigma, SmallSigma, FinalSigma}

\* \w of a str pattern, and what \b takes for word characters
UnicodeWordChars == WordChars \cup NonAsciiLetters

\* the characters that have a case, and those str.lower() looks through when
\* it looks for one around a capital sigma (the grave accent, which is one
\* of them too, is not a character of the texts here)
CasedChars == Range(UpperChars) \cup Range(LowerChars) \cup NonAsciiLetters

CaseIgnorable == {"'", ".", ":", "^"}

CasedBefore(s, k) ==
  \E j \in 1..(k - 1) :
    s[j] \in CasedChars /\ \A m \in (j + 1)..(k - 1) : s[m] \in CaseIgnorable

CasedAfter(s, k) ==
  \E j \in (k + 1)..Len(s) :
    s[j] \in CasedChars /\ \A m \in (k + 1)..(j - 1) : s[m] \in CaseIgnorable

LowerChar(c) ==
  IF \E k \in 1..Len(UpperChars) : UpperChars[k] = c
    THEN LowerChars[CHOOSE k \in 1..Len(UpperChars) : UpperChars[k] = c]
    ELSE c

\* mutant: a capital sigma becomes a small sigma wherever it stands
lower_NoFinalSigma(s) ==
  [k \in 1..Len(s) |-> IF s[k] = Sigma THEN SmallSigma ELSE LowerChar(s[k])]

\* str.lower(): a capital sigma that ends a word (a cased letter before it,
\* none after it) becomes a final sigma, any other one a small sigma
lower(s) ==
  [k \in 1..Len(s) |->
     IF s[k] = Sigma
       THEN IF CasedBefore(s, k) /\ ~CasedAfter(s, k) THEN FinalSigma ELSE SmallSigma
       ELSE LowerChar(s[k])]

\* "sub in s"
Contains(s, sub) ==
  \E k \in 0..(Len(s) - Len(sub)) : SubSeq(s, k + 1, k + Len(sub)) = sub

\* s.count(c), c one character
count(s, c) == Cardinality({k \in 1..Len(s) : s[k] = c})

\* s has the characters of w from position k on
HasAt(s, k, w) == k + Len(w) - 1 <= Len(s) /\ SubSeq(s, k, k + Len(w) - 1) = w

RECURSIVE WsRunEnd(_, _)
WsRunEnd(s, k) ==
  IF k <= Len(s) /\ s[k] \in Whitespace THEN WsRunEnd(s, k + 1) ELSE k

RECURSIVE WordRunEnd(_, _)
WordRunEnd(s, k) ==
  IF k <= Len(s) /\ s[k] \in UnicodeWordChars THEN WordRunEnd(s, k + 1) ELSE k

RECURSIVE NotGtRunEnd(_, _)
NotGtRunEnd(s, k) ==
  IF k <= Len(s) /\ s[k] # ">" THEN NotGtRunEnd(s, k + 1) ELSE k

\* ^ under re.MULTILINE
AtLineStart(s, k) == k = 1 \/ (k > 1 /\ k - 1 <= Len(s) /\ s[k - 1] = NL)

----------------------------------------------------------------------------
(* RustCopartnerWorkflow._extract_relevant_snippets *)

KwPub == <<"p", "u", "b">>

KwStruct == <<"s", "t", "r", "u", "c", "t">>

KwImpl == <<"i", "m", "p", "l">>

KwFn == <<"f", "n">>

NoMatch == [matched |-> FALSE, start |-> 0, end |-> 0, group1 |-> None, group2 |-> None]

\* keyword, \s+, (\w+) from position k; start is where the whole match began;
\* g1 is what an earlier group captured
KeywordThenName(s, start, k, kw, g1, nameIsGroup2) ==
  LET a == k + Len(kw)
      b == WsRunEnd(s, a)
      e == WordRunEnd(s, b)
  IN  IF HasAt(s, k, kw) /\ b > a /\ e > b
        THEN [matched |-> TRUE, start |-> start, end |-> e,
              group1 |-> IF nameIsGroup2 THEN g1 ELSE Some(SubSeq(s, b, e - 1)),
              group2 |-> IF nameIsGroup2 THEN Some(SubSeq(s, b, e - 1)) ELSE None]
        ELSE NoMatch

\* the end of an optional "pub\s+" at k, or k when there is none
AfterPub(s, k) ==
  LET a == k + Len(KwPub)
      b == WsRunEnd(s, a)
  IN  IF HasAt(s, k, KwPub) /\ b > a THEN b ELSE k

\* ^(pub\s+)?struct\s+(\w+)
struct_pattern(s, k) ==
  IF ~AtLineStart(s, k) THEN NoMatch
  ELSE LET q == AfterPub(s, k)
       IN  KeywordThenName(s, k, q, KwStruct,
                           IF q > k THEN Some(SubSeq(s, k, q - 1)) ELSE None, TRUE)

\* ^impl(?:\s*<[^>]*>)?\s+(\w+)
impl_pattern(s, k) ==
  IF ~(AtLineStart(s, k) /\ HasAt(s, k, KwImpl)) THEN NoMatch
  ELSE LET a == k + Len(KwImpl)
           lt == WsRunEnd(s, a)
           gt == NotGtRunEnd(s, lt + 1)
           generic == CharAt(s, lt) = "<" /\ CharAt(s, gt) = ">"
           b0 == IF generic THEN gt + 1 ELSE a
           b == WsRunEnd(s, b0)
           e == WordRunEnd(s, b)
       IN  IF b > b0 /\ e > b
             THEN [matched |-> TRUE, start |-> k, end |-> e,
                   group1 |-> Some(SubSeq(s, b, e - 1)), group2 |-> None]
             ELSE NoMatch

\* ^(?:pub\s+)?fn\s+(\w+)
fn_pattern(s, k) ==
  IF ~AtLineStart(s, k) THEN NoMatch
  ELSE KeywordThenName(s, k, AfterPub(s, k), KwFn, None, FALSE)

\* mutant: the fn pattern is tried first
BlockTypes_FnFirst == <<"fn", "struct", "impl">>

\* line 352: the patterns in the order they are tried
BlockTypes == <<"struct", "impl", "fn">>

PatternAt(block_type, s, k) ==
  CASE block_type = "struct" -> struct_pattern(s, k)
    [] block_type = "impl" -> impl_pattern(s, k)
    [] block_type = "fn" -> fn_pattern(s, k)

\* pattern.finditer(content): the matches from position k on, left to right,
\* each search resuming where the last match ended
RECURSIVE finditer(_, _, _)
finditer(block_type, s, k) ==
  IF k > Len(s) THEN <<>>
  ELSE LET m == PatternAt(block_type, s, k)
       IN  IF m.matched
             THEN <<m>> \o finditer(block_type, s, m.end)
             ELSE finditer(block_type, s, k + 1)

\* number of groups of the pattern: len(match.groups())
GroupCount(block_type) == IF block_type = "struct" THEN 2 ELSE 1

\* line 354
MatchIsRelevant(block_type, m, ids) ==
  \/ (m.group1 # None /\ m.group1[1] \in ids)
  \/ (GroupCount(block_type) > 1 /\ m.group2 # None /\ m.group2[1] \in ids)

BlockLimit == 20

\* lines 360-374: the lines of the block that starts at line k, read up to
\* line last; acc, brace_count and found_opening are the loop's variables
RECURSIVE BlockLoop(_, _, _, _, _, _)
BlockLoop(ls, k, last, brace_count, found_opening, acc) ==
  IF k > last THEN acc
  ELSE LET line == ls[k]
           opened == Contains(line, <<"{">>)
           found == found_opening \/ opened
           b1 == IF opened THEN brace_count + count(line, "{") ELSE brace_count
           b2 == IF found THEN b1 - count(line, "}") ELSE b1
       IN  IF found /\ b2 <= 0
             THEN Append(acc, line)
             ELSE BlockLoop(ls, k + 1, last, b2, found, Append(acc, line))

\* mutant: the block is read to the end of the file
BlockLines_NoLimit(content, ls, start_pos) ==
  BlockLoop(ls, count(SubSeq(content, 1, start_pos - 1), NL) + 1, Len(ls),
            0, FALSE, <<>>)

\* the block of a match that starts at character start_pos (1-based)
BlockLines(content, ls, start_pos) ==
  LET line_num == count(SubSeq(content, 1, start_pos - 1), NL)
      last == IF line_num + BlockLimit < Len(ls) THEN line_num + BlockLimit ELSE Len(ls)
  IN  BlockLoop(ls, line_num + 1, last, 0, FALSE, <<>>)

\* f"From {relative_path}:\n{snippet}"
FormatSnippet(name, snippet) ==
  <<"F", "r", "o", "m", " ">> \o name \o <<":", NL>> \o snippet

\* f"From {relative_path} ({block_type} block):\n{block_snippet}"
FormatBlock(name, block_type, snippet) ==
  <<"F", "r", "o", "m", " ">> \o name \o <<" ", "(">> \o
  (CASE block_type = "struct" -> KwStruct
     [] block_type = "impl" -> KwImpl
     [] block_type = "fn" -> KwFn) \o
  <<" ", "b", "l", "o", "c", "k", ")", ":">> \o <<NL>> \o snippet

\* "if formatted_snippet not in snippets: snippets.append(formatted_snippet)"
AppendNew(snippets, s) ==
  IF s \in Range(snippets) THEN snippets ELSE Append(snippets, s)

\* lines 337-340: the window around line k (1-based)
WindowSnippet(ls, k) ==
  join(NL, SubSeq(ls, IF k - 2 > 1 THEN k - 2 ELSE 1,
                      IF k + 2 < Len(ls) THEN k + 2 ELSE Len(ls)))

\* mutant: every line of a relevant file gets a window
LineIsRelevant_AnyLine(line, ids) == TRUE

\* line 335
LineIsRelevant(line, ids) == \E id \in ids : Contains(line, id)

\* lines 334-345, from line k on
RECURSIVE WindowLoop(_, _, _, _, _)
WindowLoop(ls, k, ids, name, snippets) ==
  IF k > Len(ls) THEN snippets
  ELSE WindowLoop(ls, k + 1, ids, name,
         IF LineIsRelevant(ls[k], ids)
           THEN AppendNew(snippets, FormatSnippet(name, WindowSnippet(ls, k)))
           ELSE snippets)

\* lines 353-382 for one pattern, ms its matches
RECURSIVE MatchLoop(_, _, _, _, _, _, _)
MatchLoop(ms, block_type, content, ls, ids, name, snippets) ==
  IF ms = <<>> THEN snippets
  ELSE LET m == Head(ms)
           block_lines == BlockLines(content, ls, m.start)
       IN  MatchLoop(Tail(ms), block_type, content, ls, ids, name,
             IF MatchIsRelevant(block_type, m, ids) /\ block_lines # <<>>
               THEN AppendNew(snippets,
                      FormatBlock(name, block_type, join(NL, block_lines)))
               ELSE snippets)

\* line 352, from the n-th pattern on
RECURSIVE PatternLoop(_, _, _, _, _, _)
PatternLoop(n, content, ls, ids, name, snippets) ==
  IF n > Len(BlockTypes) THEN snippets
  ELSE PatternLoop(n + 1, content, ls, ids, name,
         MatchLoop(finditer(BlockTypes[n], content, 1), BlockTypes[n],
                   content, ls, ids, name, snippets))

\* Path(file_path).name
PathName(file_path) == file_path[Len(file_path)]

_extract_relevant_snippets(content, ids, file_path) ==
  LET ls == split(content, NL)
      name == PathName(file_path)
  IN  PatternLoop(1, content, ls, ids, name,
                  WindowLoop(ls, 1, ids, name, <<>>))

----------------------------------------------------------------------------
(* RustCopartnerWorkflow._is_relevant_file *)

_is_relevant_file(content, ids) ==
  LET content_lower == lower(content)
  IN  \/ \E id \in ids : Contains(content_lower, lower(id))
      \/ \E id \in ids :
           /\ Len(id) > 3
           /\ \E part \in Range(split(lower(id), "_")) : Contains(content_lower, part)

----------------------------------------------------------------------------
(* RustCopartnerWorkflow.__init__ and _collect_project_context *)

DefaultMaxContextItems == 30

\* "max_context_items: int = 30": arg is None when the caller gives no limit
WorkflowInit(arg) == IF arg = None THEN DefaultMaxContextItems ELSE arg[1]

\* mutant: the list is returned whole
PySliceTo_NoLimit(seq, n) == seq

\* seq[:n]
PySliceTo(seq, n) ==
  IF n >= 0
    THEN SubSeq(seq, 1, IF n < Len(seq) THEN n ELSE Len(seq))
    ELSE SubSeq(seq, 1, IF Len(seq) + n > 0 THEN Len(seq) + n ELSE 0)

Collecting == pc = "collect" /\ fi <= Len(rust_files)

\* mutant: a file that cannot be read ends the collection with an empty list
CollectSkipUnreadable_Abort ==
  /\ Collecting
  /\ ~rust_files[fi].readable
  /\ collected' = Some(<<>>)
  /\ pc' = "collected"
  /\ UNCHANGED <<rust_files, identifiers, max_context_items, fi, context>>
  /\ UNCHANGED <<pvars, mvars, ovars>>

\* lines 266-268 and 277-279: open() or read() raises, the file is skipped
CollectSkipUnreadable ==
  /\ Collecting
  /\ ~rust_files[fi].readable
  /\ fi' = fi + 1
  /\ UNCHANGED <<pc, rust_files, identifiers, max_context_items, context, collected>>
  /\ UNCHANGED <<pvars, mvars, ovars>>

\* line 271, condition false
CollectSkipIrrelevant ==
  /\ Collecting
  /\ rust_files[fi].readable
  /\ ~_is_relevant_file(rust_files[fi].content, identifiers)
  /\ fi' = fi + 1
  /\ UNCHANGED <<pc, rust_files, identifiers, max_context_items, context, collected>>
  /\ UNCHANGED <<pvars, mvars, ovars>>

\* lines 271-275
CollectExtend ==
  /\ Collecting
  /\ rust_files[fi].readable
  /\ _is_relevant_file(rust_files[fi].content, identifiers)
  /\ context' = context \o
       _extract_relevant_snippets(rust_files[fi].content, identifiers,
                                  rust_files[fi].path)
  /\ fi' = fi + 1
  /\ UNCHANGED <<pc, rust_files, identifiers, max_context_items, collected>>
  /\ UNCHANGED <<pvars, mvars, ovars>>

\* lines 281-282
CollectReturn ==
  /\ pc = "collect"
  /\ fi > Len(rust_files)
  /\ collected' = Some(PySliceTo(context, max_context_items))
  /\ pc' = "collected"
  /\ UNCHANGED <<rust_files, identifiers, max_context_items, fi, context>>
  /\ UNCHANGED <<pvars, mvars, ovars>>

----------------------------------------------------------------------------
(* Inputs of the collector *)

NameM == <<"m", ".", "r", "s">>

NameN == <<"n", ".", "r", "s">>

ProjectPaths == {<<<<"a">>, NameM>>, <<<<"a">>, NameN>>, <<<<"b">>, NameM>>}

TextStruct == <<"s", "t", "r", "u", "c", "t", " ", "P", " ", "{", NL, "x", NL, "}">>

TextTwice == <<"P", NL, "P">>

TextFn == <<"f", "n", " ", "f", "(", ")", " ", "{", NL, "}">>

TextOther == <<"x">>

TextImpl == <<"i", "m", "p", "l", "<", "T", ">", " ", "P", " ", "{", NL, "f", "n", " ", "f", "(", ")", " ", "{", NL, "P", NL, "}", NL, "}">>

\* a capital sigma inside a word
TextSigma == <<"P", Sigma, "P">>

\* a function whose brace is never closed, of more than BlockLimit lines
TextLong ==
  <<"f", "n", " ", "f", "(", ")", " ", "{">> \o [k \in 1..(BlockLimit + 1) |-> NL]

\* a function with one closing brace too many on its first line
TextOver == <<"f", "n", " ", "f", "(", ")", " ", "{", "}", "}", NL, "x">>

ProjectTexts ==
  {TextStruct, TextTwice, TextFn, TextOther, TextImpl, TextSigma, TextLong,
   TextOver}

ProjectFiles == [path : ProjectPaths, content : ProjectTexts, readable : BOOLEAN]

\* the enumerations of a project: files of different paths, in any order
ProjectTrees ==
  {fs \in SeqsUpTo(ProjectFiles, MaxFiles) :
     \A a, b \in 1..Len(fs) : a # b => fs[a].path # fs[b].path}

\* P; P and f; y; the compound P_zz, of which only the part P occurs; a
\* word that ends in a capital sigma
IdentifierSets ==
  {{<<"P">>}, {<<"P">>, <<"f">>}, {<<"y">>}, {<<"P", "_", "z", "z">>},
   {<<"P", Sigma>>}}

LimitArgs == {None} \cup {Some(n) : n \in (-1)..MaxItems}

InitCollect ==
  /\ pc = "collect"
  /\ rust_files \in ProjectTrees
  /\ identifiers \in IdentifierSets
  /\ \E arg \in LimitArgs : max_context_items = WorkflowInit(arg)
  /\ fi = 1
  /\ context = <<>>
  /\ collected = None
  /\ IdleP /\ IdleM /\ IdleO

NextCollect ==
  \/ CollectSkipUnreadable
  \/ CollectSkipIrrelevant
  \/ CollectExtend
  \/ CollectReturn

SpecCollect == InitCollect /\ [][NextCollect]_vars

----------------------------------------------------------------------------
(* Claims about collect *)

\* C1: the list collect returns holds no entry twice (an entry is its label
\* and its text).
C1_NoDuplicates ==
  pc = "collected" =>
    \A a, b \in 1..Len(collected[1]) : a # b => collected[1][a] # collected[1][b]

\* C2: with max_context_items >= 0, collect returns at most
\* max_context_items entries.
C2_AtMostMaxItems ==
  (pc = "collected" /\ max_context_items >= 0) =>
    Len(collected[1]) <= max_context_items

\* collect has returned exactly max_context_items > 0 entries out of more
C2_Witness ==
  /\ pc = "collected"
  /\ max_context_items > 0
  /\ Len(context) > max_context_items
  /\ Len(collected[1]) = max_context_items

----------------------------------------------------------------------------
(* DiffParser.extract_identifiers *)

\* [a-zA-Z_]
IdentifierStartChars == Range(UpperChars) \cup Range(LowerChars) \cup {"_"}

\* \b at the gap before position k of s
WordBoundary(s, k) ==
  LET before == k > 1 /\ k - 1 <= Len(s) /\ s[k - 1] \in UnicodeWordChars
      after == k >= 1 /\ k <= Len(s) /\ s[k] \in UnicodeWordChars
  IN before # after

\* the end of a run of [a-zA-Z0-9_]
RECURSIVE AsciiWordRunEnd(_, _)
AsciiWordRunEnd(s, k) ==
  IF k <= Len(s) /\ s[k] \in WordChars THEN AsciiWordRunEnd(s, k + 1) ELSE k

\* \b[a-zA-Z_][a-zA-Z0-9_]*\b tried at position k: the position after the
\* match, 0 for no match.  The greedy run is the only candidate: a shorter
\* one would end between two characters of [a-zA-Z0-9_], where \b fails.
identifier_pattern(s, k) ==
  IF k <= Len(s) /\ WordBoundary(s, k) /\ s[k] \in IdentifierStartChars
    THEN LET e == AsciiWordRunEnd(s, k + 1)
         IN IF WordBoundary(s, e) THEN e ELSE 0
    ELSE 0

\* identifier_pattern.findall(s), from position k on, as a set
RECURSIVE findall(_, _)
findall(s, k) ==
  IF k > Len(s) THEN {}
  ELSE LET e == identifier_pattern(s, k)
       IN IF e = 0 THEN findall(s, k + 1)
          ELSE {SubSeq(s, k, e - 1)} \cup findall(s, e)

rust_keywords ==
  {<<"s", "t", "r", "u", "c", "t">>,
   <<"i", "m", "p", "l">>,
   <<"f", "n">>,
   <<"e", "n", "u", "m">>,
   <<"t", "r", "a", "i", "t">>,
   <<"m", "o", "d">>,
   <<"p", "u", "b">>,
   <<"u", "s", "e">>,
   <<"l", "e", "t">>,
   <<"m", "u", "t">>,
   <<"c", "o", "n", "s", "t">>,
   <<"s", "t", "a", "t", "i", "c">>,
   <<"m", "a", "t", "c", "h">>,
   <<"i", "f">>,
   <<"e", "l", "s", "e">>,
   <<"l", "o", "o", "p">>,
   <<"f", "o", "r">>,
   <<"w", "h", "i", "l", "e">>,
   <<"r", "e", "t", "u", "r", "n">>,
   <<"b", "r", "e", "a", "k">>,
   <<"c", "o", "n", "t", "i", "n", "u", "e">>,
   <<"S", "e", "l", "f">>,
   <<"s", "e", "l", "f">>,
   <<"i", "3", "2">>,
   <<"i", "6", "4">>,
   <<"u", "3", "2">>,
   <<"u", "6", "4">>,
   <<"f", "3", "2">>,
   <<"f", "6", "4">>,
   <<"b", "o", "o", "l">>,
   <<"c", "h", "a", "r">>,
   <<"s", "t", "r">>,
   <<"S", "t", "r", "i", "n", "g">>,
   <<"V", "e", "c">>,
   <<"O", "p", "t", "i", "o", "n">>,
   <<"R", "e", "s", "u", "l", "t">>}

\* str.isdigit()
isdigit(s) == Len(s) >= 1 /\ \A k \in 1..Len(s) : s[k] \in DigitChars

\* "if change.old_line:", None and '' are both false
Truthy(text) == text # None /\ text[1] # <<>>

\* the identifiers found in one text field of a change
FoundIn(text) == IF Truthy(text) THEN findall(text[1], 1) ELSE {}

\* mutant: identifiers of one character are taken for noise
FilterIdentifiers_MinLength2(ids) ==
  {id \in ids : Len(id) >= 2 /\ ~isdigit(id)} \cup (rust_keywords \cap ids)

\* filtered_identifiers, with the keywords found added
FilterIdentifiers(ids) ==
  {id \in ids : Len(id) >= 1 /\ ~isdigit(id)} \cup (rust_keywords \cap ids)

Extracting == pc = "extract"

\* one pass of "for change in file_change.changes"
ExtractChange ==
  /\ Extracting
  /\ ef <= Len(diff_result)
  /\ ec <= Len(diff_result[ef].changes)
  /\ LET change == diff_result[ef].changes[ec]
     IN all_identifiers' =
          all_identifiers \cup FoundIn(change.old_line)
                          \cup FoundIn(change.new_line)
  /\ ec' = ec + 1
  /\ UNCHANGED <<pc, diff_result, ef, filtered_identifiers>>
  /\ UNCHANGED <<pvars, mvars, cvars, dvars, wvars, qvars, svars>>

\* the changes of a file are exhausted: next file_change
ExtractNextFile ==
  /\ Extracting
  /\ ef <= Len(diff_result)
  /\ ec > Len(diff_result[ef].changes)
  /\ ef' = ef + 1
  /\ ec' = 1
  /\ UNCHANGED <<pc, diff_result, all_identifiers, filtered_identifiers>>
  /\ UNCHANGED <<pvars, mvars, cvars, dvars, wvars, qvars, svars>>

\* after the loops: filter, add the keywords, return
ExtractReturn ==
  /\ Extracting
  /\ ef > Len(diff_result)
  /\ filtered_identifiers' = Some(FilterIdentifiers(all_identifiers))
  /\ pc' = "extracted"
  /\ UNCHANGED <<diff_result, ef, ec, all_identifiers>>
  /\ UNCHANGED <<pvars, mvars, cvars, dvars, wvars, qvars, svars>>

----------------------------------------------------------------------------
(* Inputs of extract_identifiers: models as parse builds them *)

\* "ab 3d" deleted
ExtractDel ==
  DiffChange(1, DELETION, Some(<<"a", "b", " ", "3", "d">>), None)

\* "x9 12" added
ExtractAdd ==
  DiffChange(1, ADDITION, None, Some(<<"x", "9", " ", "1", "2">>))

\* "fn _a" unchanged
ExtractCtx ==
  DiffChange(2, CONTEXT, Some(<<"f", "n", " ", "_", "a">>),
             Some(<<"f", "n", " ", "_", "a">>))

\* "Pt {" renamed to "Pt3 {"
ExtractMod ==
  DiffChange(3, MODIFICATION, Some(<<"P", "t", " ", "{">>),
             Some(<<"P", "t", "3", " ", "{">>))

\* a line with a letter outside ASCII added
ExtractAddNonAscii ==
  DiffChange(4, ADDITION, None, Some(<<"a", EAcute, " ", "b">>))

\* an empty unchanged line
ExtractCtxEmpty == DiffChange(5, CONTEXT, Some(<<>>), Some(<<>>))

ExtractChanges ==
  {ExtractDel, ExtractAdd, ExtractCtx, ExtractMod, ExtractAddNonAscii,
   ExtractCtxEmpty}

\* models of one file with up to MaxLines changes, and of two files with up
\* to MaxBody changes each; the empty model of a blank diff
ExtractModels ==
  {<<>>} \cup
  {<<FileChange(<<"x">>, chs)>> : chs \in SeqsUpTo(ExtractChanges, MaxLines)}
  \cup
  {<<FileChange(<<"x">>, c1), FileChange(<<"y">>, c2)>> :
     c1 \in SeqsUpTo(ExtractChanges, MaxBody),
     c2 \in SeqsUpTo(ExtractChanges, MaxBody)}

InitExtract ==
  /\ pc = "extract"
  /\ diff_result \in ExtractModels
  /\ ef = 1 /\ ec = 1
  /\ all_identifiers = {} /\ filtered_identifiers = None
  /\ IdleP /\ IdleM /\ IdleC /\ IdleD /\ IdleW /\ IdleQ /\ IdleS

NextExtract ==
  \/ ExtractChange
  \/ ExtractNextFile
  \/ ExtractReturn

SpecExtract == InitExtract /\ [][NextExtract]_vars

----------------------------------------------------------------------------
(* Claims about extract_identifiers *)

\* the maximal runs of letters, digits and underscores of s
TokenEnd(s, k) ==
  CHOOSE e \in k..(Len(s) + 1) :
    /\ \A j \in k..(e - 1) : s[j] \in UnicodeWordChars
    /\ e = Len(s) + 1 \/ s[e] \notin UnicodeWordChars

Tokens(s) ==
  {SubSeq(s, k, TokenEnd(s, k) - 1) :
     k \in {j \in 1..Len(s) :
              /\ s[j] \in UnicodeWordChars
              /\ j = 1 \/ s[j - 1] \notin UnicodeWordChars}}

\* the tokens of the old and new texts of every change of the model
ChangeTokens(ch) ==
  UNION {Tokens(t[1]) : t \in {ch.old_line, ch.new_line} \ {None}}

ModelTokens(fcs) ==
  UNION {UNION {ChangeTokens(fcs[f].changes[c]) :
                  c \in 1..Len(fcs[f].changes)} :
         f \in 1..Len(fcs)}

IsIdentifierToken(tok) ==
  /\ \A k \in 1..Len(tok) : tok[k] \in WordChars
  /\ tok[1] \notin DigitChars

\* C11: extract_identifiers returns every maximal alphanumeric/underscore
\* token of the old and new texts of the model, except the tokens made only
\* of digits.
C11_AllTokens ==
  pc = "extracted" =>
    \A tok \in ModelTokens(diff_result) :
      isdigit(tok) \/ tok \in filtered_identifiers[1]

\* C11, amended: extract_identifiers returns every maximal token of the old
\* and new texts that is made of ASCII letters, digits and underscores and
\* does not start with a digit.
C11_IdentifierTokens ==
  pc = "extracted" =>
    \A tok \in ModelTokens(diff_result) :
      IsIdentifierToken(tok) => tok \in filtered_identifiers[1]

\* a rename from Pt to Pt3 and a one-letter name were extracted, next to a
\* token that starts with a digit
C11_Witness ==
  /\ pc = "extracted"
  /\ \E f \in 1..Len(diff_result) : \E c \in 1..Len(diff_result[f].changes) :
       diff_result[f].changes[c] = ExtractMod
  /\ {<<"P", "t">>, <<"P", "t", "3">>, <<"b">>} \subseteq filtered_identifiers[1]
  /\ <<"3", "d">> \in ModelTokens(diff_result)

----------------------------------------------------------------------------
(* The file system, as pathlib and open() see it.  A path is the sequence *)
(* of its components from "/"; a path string is text.                     *)

\* the components of a path string; pathlib drops the empty ones and "."
PathParts(name) ==
  SelectSeq(split(name, "/"), LAMBDA part : part # <<>> /\ part # <<".">>)

\* Path(base) / name: an absolute name replaces the base
PathJoin(base, name) ==
  IF Len(name) >= 1 /\ name[1] = "/" THEN PathParts(name)
  ELSE base \o PathParts(name)

\* Path(name).name: the last component, '' when there is none
BaseName(name) ==
  LET parts == PathParts(name)
  IN IF parts = <<>> THEN <<>> ELSE parts[Len(parts)]

\* project_path, "/r"
ProjectRoot == <<<<"r">>>>

IsUnder(path, dir) ==
  Len(path) > Len(dir) /\ SubSeq(path, 1, Len(dir)) = dir

\* Path.is_file()
IsFile(path) == \E f \in disk : f.path = path

IsDirectory(path) ==
  \/ path = ProjectRoot /\ root_exists
  \/ \E f \in disk : IsUnder(f.path, path)

\* Path.exists()
exists(path) == IsFile(path) \/ IsDirectory(path)

\* open(path, 'r') and read() succeed
CanRead(path) == \E f \in disk : f.path = path /\ f.readable

\* name.endswith(".rs"), the pattern "**/*.rs"
IsRustName(name) ==
  Len(name) >= 3 /\ SubSeq(name, Len(name) - 2, Len(name)) = <<".", "r", "s">>

\* the orders in which a directory walk can list the files of S
Enumerations(S) ==
  {fs \in [1..Cardinality(S) -> S] :
     \A a, b \in 1..Cardinality(S) : a # b => fs[a] # fs[b]}

\* the lists _find_rust_files(project_path) can return
_find_rust_files ==
  IF ~exists(ProjectRoot) THEN {<<>>}
  ELSE Enumerations({f \in disk : IsUnder(f.path, ProjectRoot)
                                    /\ IsRustName(PathName(f.path))})

----------------------------------------------------------------------------
(* RustCopartnerWorkflow._find_relevant_file *)

DirSrc == <<"s", "r", "c">>

possible_paths(filename) ==
  <<PathJoin(ProjectRoot, filename),
    PathJoin(PathJoin(ProjectRoot, DirSrc), filename),
    PathJoin(ProjectRoot, BaseName(filename))>>

\* the first of the possible paths that exists, None when none does
FirstExisting(paths) ==
  IF \E k \in 1..Len(paths) : exists(paths[k])
    THEN Some(paths[CHOOSE k \in 1..Len(paths) :
                      /\ exists(paths[k])
                      /\ \A j \in 1..(k - 1) : ~exists(paths[j])])
    ELSE None

CallFind == "_find_relevant_file"

CallProcess == "process_diff"

\* lines 224 and 240-241: parse raised, the exception is swallowed
FindParseFailed ==
  /\ pc = "error" /\ caller = CallFind
  /\ original_file_path' = None
  /\ pc' = "found"
  /\ UNCHANGED <<caller, diff_file, fc, workflow_result, suggest_calls>>
  /\ UNCHANGED <<pvars, mvars, cvars, evars, dvars, qvars, svars>>

\* lines 226-236: one pass of "for file_change in diff_result.file_changes"
FindTryFile ==
  /\ pc = "done" /\ caller = CallFind
  /\ fc <= Len(result.file_changes)
  /\ LET hit == FirstExisting(possible_paths(result.file_changes[fc].filename))
     IN IF hit # None
          THEN original_file_path' = hit /\ pc' = "found" /\ fc' = fc
          ELSE original_file_path' = original_file_path /\ pc' = pc
               /\ fc' = fc + 1
  /\ UNCHANGED <<caller, diff_file, workflow_result, suggest_calls>>
  /\ UNCHANGED <<pvars, mvars, cvars, evars, dvars, qvars, svars>>

\* line 238: no file_change left
FindExhausted ==
  /\ pc = "done" /\ caller = CallFind
  /\ fc > Len(result.file_changes)
  /\ original_file_path' = None
  /\ pc' = "found"
  /\ UNCHANGED <<caller, diff_file, fc, workflow_result, suggest_calls>>
  /\ UNCHANGED <<pvars, mvars, cvars, evars, dvars, qvars, svars>>

----------------------------------------------------------------------------
(* RustCopartnerWorkflow.process_diff_file and process_diff *)

MsgDiffFileNotFound == "Diff file not found: "

MsgErrorReading == "Error reading diff file: "

MsgNoOriginalFile == "Could not find the original file mentioned in the diff"

MsgWorkflowError == "Workflow error: "

\* str(e) of the OSError of a failed open()
MsgPermissionDenied == "Permission denied"

\* diff_file_path
DiffFilePath == "d.diff"

\* mutant: a failure without its message
Failure_NoMessage(dc, fixed, detail) ==
  [diff_content |-> dc, success |-> FALSE, suggestion_result |-> None,
   error_message |-> None]

\* a WorkflowResult with success=False; error_message is the text of the
\* f-string, its fixed part and the part filled in
Failure(dc, fixed, detail) ==
  [diff_content |-> dc, success |-> FALSE, suggestion_result |-> None,
   error_message |-> Some(<<fixed, detail>>)]

\* a WorkflowResult with success=True
Success(dc, suggestion) ==
  [diff_content |-> dc, success |-> TRUE,
   suggestion_result |-> Some(suggestion), error_message |-> None]

\* the SuggestionResult generate_suggestion builds
SuggestionResult(dc, ctx, valid) ==
  [diff_content |-> dc, project_context |-> ctx, is_valid |-> valid]

\* str(e) of the exceptions the LLM collaborator raises
LLMErrors == {"LLM API Error", ""}

\* what a call of generate_suggestion can do: raise what the collaborator
\* raised, or return a result that validation accepted or not
SuggestOutcomes ==
  [raised : {TRUE}, message : LLMErrors, is_valid : {FALSE}] \cup
  [raised : {FALSE}, message : {""}, is_valid : BOOLEAN]

\* lines 70-76
DiffFileMissing ==
  /\ pc = "process_diff_file"
  /\ ~diff_file.exists
  /\ workflow_result' = Some(Failure(<<>>, MsgDiffFileNotFound, DiffFilePath))
  /\ pc' = "returned"
  /\ UNCHANGED <<caller, diff_file, fc, original_file_path, suggest_calls>>
  /\ UNCHANGED <<pvars, mvars, cvars, evars, dvars, qvars, svars>>

\* lines 78-79 and 83-89: open() or read() raises
DiffFileUnreadable ==
  /\ pc = "process_diff_file"
  /\ diff_file.exists /\ ~diff_file.readable
  /\ workflow_result' = Some(Failure(<<>>, MsgErrorReading, MsgPermissionDenied))
  /\ pc' = "returned"
  /\ UNCHANGED <<caller, diff_file, fc, original_file_path, suggest_calls>>
  /\ UNCHANGED <<pvars, mvars, cvars, evars, dvars, qvars, svars>>

\* lines 78-81 and 108, 224: the diff is read, process_diff calls
\* _find_relevant_file, which calls parse
DiffFileRead ==
  /\ pc = "process_diff_file"
  /\ diff_file.exists /\ diff_file.readable
  /\ diff_content' = diff_file.content
  /\ caller' = CallFind
  /\ pc' = "start"
  /\ UNCHANGED <<lines, i, file_changes, current_file, current_changes,
                 old_line_num, new_line_num, result>>
  /\ UNCHANGED <<diff_file, fc, original_file_path, workflow_result, suggest_calls>>
  /\ UNCHANGED <<mvars, cvars, evars, dvars, qvars, svars>>

\* lines 109-115
ProcessNotFound ==
  /\ pc = "found"
  /\ original_file_path = None
  /\ workflow_result' = Some(Failure(diff_content, MsgNoOriginalFile, ""))
  /\ pc' = "returned"
  /\ UNCHANGED <<caller, diff_file, fc, original_file_path, suggest_calls>>
  /\ UNCHANGED <<pvars, mvars, cvars, evars, dvars, qvars, svars>>

\* lines 118-119 and 143-149: the original file cannot be read
ProcessReadFails ==
  /\ pc = "found"
  /\ original_file_path # None
  /\ ~CanRead(original_file_path[1])
  /\ workflow_result' =
       Some(Failure(diff_content, MsgWorkflowError, MsgPermissionDenied))
  /\ pc' = "returned"
  /\ UNCHANGED <<caller, diff_file, fc, original_file_path, suggest_calls>>
  /\ UNCHANGED <<pvars, mvars, cvars, evars, dvars, qvars, svars>>

\* lines 118-123: the original file is read, parse is called again
ProcessParse ==
  /\ pc = "found"
  /\ original_file_path # None
  /\ CanRead(original_file_path[1])
  /\ lines' = <<>> /\ i' = 1 /\ file_changes' = <<>>
  /\ current_file' = None /\ current_changes' = <<>>
  /\ old_line_num' = 0 /\ new_line_num' = 0 /\ result' = NoResult
  /\ caller' = CallProcess
  /\ pc' = "start"
  /\ UNCHANGED <<diff_content>>
  /\ UNCHANGED <<diff_file, fc, original_file_path, workflow_result, suggest_calls>>
  /\ UNCHANGED <<mvars, cvars, evars, dvars, qvars, svars>>

\* lines 123-124: parse returned and extract_identifiers is called; lines
\* 143-149 when parse raised
ProcessAfterParse ==
  /\ pc \in {"done", "error"} /\ caller = CallProcess
  /\ IF pc = "error"
       THEN /\ workflow_result' =
                 Some(Failure(diff_content, MsgWorkflowError, result.error))
            /\ pc' = "returned"
            /\ UNCHANGED evars
       ELSE /\ diff_result' = result.file_changes
            /\ ef' = 1 /\ ec' = 1
            /\ all_identifiers' = {} /\ filtered_identifiers' = None
            /\ pc' = "extract"
            /\ UNCHANGED workflow_result
  /\ UNCHANGED <<caller, diff_file, fc, original_file_path, suggest_calls>>
  /\ UNCHANGED <<pvars, mvars, cvars, dvars, qvars, svars>>

\* line 127 and 258-262: _collect_project_context is called with the
\* identifiers and lists the project's files
ProcessCollect ==
  /\ pc = "extracted" /\ caller = CallProcess
  /\ rust_files' \in _find_rust_files
  /\ identifiers' = filtered_identifiers[1]
  /\ fi' = 1 /\ context' = <<>> /\ collected' = None
  /\ pc' = "collect"
  /\ UNCHANGED max_context_items
  /\ UNCHANGED <<pvars, mvars, evars, dvars, wvars, qvars, svars>>

\* lines 130-149: generate_suggestion returns or raises
ProcessSuggest ==
  /\ pc = "collected" /\ caller = CallProcess
  /\ \E out \in SuggestOutcomes :
       /\ suggest_calls' = Append(suggest_calls, out)
       /\ workflow_result' =
            IF out.raised
              THEN Some(Failure(diff_content, MsgWorkflowError, out.message))
              ELSE Some(Success(diff_content,
                                SuggestionResult(diff_content, collected[1],
                                                 out.is_valid)))
  /\ pc' = "returned"
  /\ UNCHANGED <<caller, diff_file, fc, original_file_path>>
  /\ UNCHANGED <<pvars, mvars, cvars, evars, dvars, qvars, svars>>

----------------------------------------------------------------------------
(* Inputs of the pipeline: a diff file, a file system *)

\* file names of the headers: x, y, d/x and the absolute /o/x
HeaderNames ==
  {<<"x">>, <<"y">>, <<"d", "/", "x">>, <<"/", "o", "/", "x">>}

LineAddP == <<"+", "P">>

\* a file section that changes nothing, and one that changes a line
PipelineBodies == {<<>>, <<LineHunk, LineCtx, LineDel, LineAddP>>}

PipelineSections ==
  {<<FileHeaderPrefix \o n, LinePlusX>> \o b :
     n \in HeaderNames, b \in PipelineBodies}

RECURSIVE Flatten(_)
Flatten(ss) == IF ss = <<>> THEN <<>> ELSE Head(ss) \o Flatten(Tail(ss))

\* the diffs of one to MaxFiles file sections; a blank diff, a diff without
\* a header, a header without its +++ line, a header that ends the diff
PipelineDiffs ==
  {Flatten(ss) : ss \in SeqsUpTo(PipelineSections, MaxFiles) \ {<<>>}} \cup
  {<<>>, <<LineOther>>, <<LineHeaderX, LineOther>>, <<LineHeaderX>>}

DiffFiles ==
  {[exists |-> FALSE, readable |-> FALSE, content |-> <<>>],
   [exists |-> TRUE, readable |-> FALSE, content |-> <<>>]} \cup
  {[exists |-> TRUE, readable |-> TRUE, content |-> join(NL, ls)] :
     ls \in PipelineDiffs}

DiskFile(path, content, readable) ==
  [path |-> path, content |-> content, readable |-> readable]

\* /r/x, that may be unreadable
FileRootX(readable) == DiskFile(ProjectRoot \o <<<<"x">>>>, TextOther, readable)

\* /r/src/x, /r/d/x, /r/y and, outside the project, /o/x
OtherTargets ==
  {DiskFile(ProjectRoot \o <<DirSrc, <<"x">>>>, TextOther, TRUE),
   DiskFile(ProjectRoot \o <<<<"d">>, <<"x">>>>, TextOther, TRUE),
   DiskFile(ProjectRoot \o <<<<"y">>>>, TextOther, TRUE),
   DiskFile(<<<<"o">>, <<"x">>>>, TextOther, TRUE)}

\* /r/a/m.rs and /r/b/m.rs
RustFileA == DiskFile(ProjectRoot \o <<<<"a">>, NameM>>, TextStruct, TRUE)

RustFileB(readable) ==
  DiskFile(ProjectRoot \o <<<<"b">>, NameM>>, TextTwice, readable)

PipelineDisks ==
  {t \cup x \cup r :
     t \in SUBSET OtherTargets,
     x \in {{}, {FileRootX(TRUE)}, {FileRootX(FALSE)}},
     r \in {{}, {RustFileA}, {RustFileA, RustFileB(TRUE)},
             {RustFileA, RustFileB(FALSE)}}}

InitPipeline ==
  /\ pc = "process_diff_file"
  /\ diff_file \in DiffFiles
  /\ disk \in PipelineDisks
  /\ root_exists \in BOOLEAN
  /\ (\E f \in disk : IsUnder(f.path, ProjectRoot)) => root_exists
  /\ caller = "" /\ fc = 1 /\ original_file_path = None
  /\ workflow_result = None /\ suggest_calls = <<>>
  /\ rust_files = <<>> /\ identifiers = {}
  /\ max_context_items = WorkflowInit(None)
  /\ fi = 1 /\ context = <<>> /\ collected = None
  /\ IdleP /\ IdleM /\ IdleE /\ IdleQ /\ IdleS

NextPipeline ==
  \/ DiffFileMissing
  \/ DiffFileUnreadable
  \/ DiffFileRead
  \/ ParseBlank
  \/ ParseStart
  \/ FileHeaderLine
  \/ HunkHeaderLine
  \/ DeletionLine
  \/ AdditionLine
  \/ ContextLine
  \/ IgnoredLine
  \/ ParseFinish
  \/ FindParseFailed
  \/ FindTryFile
  \/ FindExhausted
  \/ ProcessNotFound
  \/ ProcessReadFails
  \/ ProcessParse
  \/ ProcessAfterParse
  \/ ExtractChange
  \/ ExtractNextFile
  \/ ExtractReturn
  \/ ProcessCollect
  \/ CollectSkipUnreadable
  \/ CollectSkipIrrelevant
  \/ CollectExtend
  \/ CollectReturn
  \/ ProcessSuggest

SpecPipeline == InitPipeline /\ [][NextPipeline]_vars

----------------------------------------------------------------------------
(* Claims about _find_relevant_file and process_diff *)

\* _find_relevant_file has returned to process_diff
FindReturned == pc = "found"

\* C12: _find_relevant_file consults only the first FileChange of the parsed
\* diff: it returns the first existing of its three possible paths and None
\* when none of them exists, whatever the later FileChanges name.
C12_FirstFileChangeOnly ==
  (FindReturned /\ result.status = "ok" /\ Len(result.file_changes) >= 1) =>
    original_file_path =
      FirstExisting(possible_paths(result.file_changes[1].filename))

----------------------------------------------------------------------------
(* RustCopartnerWorkflow._extract_identifiers_from_prompt *)

UpperChar(c) ==
  IF \E k \in 1..Len(LowerChars) : LowerChars[k] = c
    THEN UpperChars[CHOOSE k \in 1..Len(LowerChars) : LowerChars[k] = c]
    ELSE IF c \in {SmallSigma, FinalSigma} THEN Sigma ELSE c

\* str.upper()
upper(s) == [k \in 1..Len(s) |-> UpperChar(s[k])]

\* str.capitalize()
capitalize(s) ==
  [k \in 1..Len(s) |-> IF k = 1 THEN UpperChar(s[k]) ELSE LowerChar(s[k])]

\* str.isidentifier()
isidentifier(s) ==
  /\ Len(s) >= 1
  /\ s[1] \notin DigitChars
  /\ \A k \in 1..Len(s) : s[k] \in UnicodeWordChars

\* re.findall(r'\b\w+\b', s), from position k on: greedy \w+ takes a whole
\* run of word characters, and \b holds at both of its ends
RECURSIVE findall_words(_, _)
findall_words(s, k) ==
  IF k > Len(s) THEN <<>>
  ELSE IF s[k] \in UnicodeWordChars
    THEN <<SubSeq(s, k, WordRunEnd(s, k) - 1)>>
           \o findall_words(s, WordRunEnd(s, k))
    ELSE findall_words(s, k + 1)

\* the position of the first q at or after k, Len(s) + 1 when there is none
RECURSIVE QuoteAt(_, _, _)
QuoteAt(s, k, q) ==
  IF k <= Len(s) /\ s[k] # q THEN QuoteAt(s, k + 1, q) ELSE k

\* re.findall(q + '([^' + q + ']+)' + q, s) for a quote character q
RECURSIVE findall_quoted(_, _, _)
findall_quoted(s, k, q) ==
  IF k > Len(s) THEN <<>>
  ELSE IF s[k] = q /\ QuoteAt(s, k + 1, q) <= Len(s)
            /\ QuoteAt(s, k + 1, q) > k + 1
    THEN <<SubSeq(s, k + 1, QuoteAt(s, k + 1, q) - 1)>>
           \o findall_quoted(s, QuoteAt(s, k + 1, q) + 1, q)
    ELSE findall_quoted(s, k + 1, q)

RECURSIVE LowerRunEnd(_, _)
LowerRunEnd(s, k) ==
  IF k <= Len(s) /\ s[k] \in Range(LowerChars) THEN LowerRunEnd(s, k + 1)
  ELSE k

\* (?:[A-Z][a-z]*)* from position k: the position after the groups
RECURSIVE CamelGroupsEnd(_, _)
CamelGroupsEnd(s, k) ==
  IF k <= Len(s) /\ s[k] \in Range(UpperChars)
    THEN CamelGroupsEnd(s, LowerRunEnd(s, k + 1))
    ELSE k

\* w is [A-Z][a-z]+(?:[A-Z][a-z]*)* as a whole
IsCamelCase(w) ==
  /\ Len(w) >= 2
  /\ w[1] \in Range(UpperChars)
  /\ w[2] \in Range(LowerChars)
  /\ CamelGroupsEnd(w, LowerRunEnd(w, 2)) = Len(w) + 1

\* (?:_[a-z]+)* from position k: the position after the groups
RECURSIVE SnakeGroupsEnd(_, _)
SnakeGroupsEnd(s, k) ==
  IF k + 1 <= Len(s) /\ s[k] = "_" /\ s[k + 1] \in Range(LowerChars)
    THEN SnakeGroupsEnd(s, LowerRunEnd(s, k + 1))
    ELSE k

\* w is [a-z]+(?:_[a-z]+)* as a whole
IsSnakeCase(w) ==
  /\ Len(w) >= 1
  /\ w[1] \in Range(LowerChars)
  /\ SnakeGroupsEnd(w, LowerRunEnd(w, 1)) = Len(w) + 1

prompt_keywords ==
  {<<"s", "t", "r", "u", "c", "t">>,
   <<"i", "m", "p", "l">>,
   <<"f", "n">>,
   <<"e", "n", "u", "m">>,
   <<"t", "r", "a", "i", "t">>,
   <<"m", "o", "d">>,
   <<"p", "u", "b">>,
   <<"u", "s", "e">>,
   <<"p", "o", "i", "n", "t">>,
   <<"p", "o", "i", "n", "t", "3", "d">>,
   <<"3", "d">>,
   <<"n", "e", "w">>,
   <<"m", "a", "i", "n">>,
   <<"p", "r", "i", "n", "t", "l", "n">>}

\* The CamelCase and snake_case patterns stand between two \b and take word
\* characters only, so they match the runs of word characters that have
\* their shape as a whole.
_extract_identifiers_from_prompt(text) ==
  LET words == Range(findall_words(lower(text), 1))
      kept == {w \in words :
                 (isidentifier(w) /\ Len(w) > 2) \/ w \in prompt_keywords}
      quoted_strings ==
        Range(findall_quoted(text, 1, "\"")) \cup
        Range(findall_quoted(text, 1, "'"))
      runs == Range(findall_words(text, 1))
  IN  kept \cup {capitalize(w) : w \in kept} \cup {upper(w) : w \in kept}
      \cup {q \in quoted_strings : isidentifier(q)}
      \cup {w \in runs : IsCamelCase(w)}
      \cup {w \in runs : IsSnakeCase(w)}

----------------------------------------------------------------------------
(* RustCopartnerWorkflow._find_main_file_for_prompt *)

\* lines 456-463: the score of a file content
Score(content, ids) ==
  LET content_lower == lower(content)
      hits == {id \in ids : Contains(content_lower, lower(id))}
      bonus == {id \in hits :
                  \/ Contains(content, KwStruct \o <<" ">> \o id)
                  \/ Contains(content, KwImpl \o <<" ">> \o id)}
  IN  Cardinality(hits) + 3 * Cardinality(bonus)

\* mutant: an entry goes before the entries of its score
RECURSIVE InsertByScore_BeforeEqual(_, _)
InsertByScore_BeforeEqual(sorted, e) ==
  IF sorted = <<>> THEN <<e>>
  ELSE IF Head(sorted).score > e.score
    THEN <<Head(sorted)>> \o InsertByScore_BeforeEqual(Tail(sorted), e)
    ELSE <<e>> \o sorted

\* e put into a list sorted by falling score, after the entries of its score
RECURSIVE InsertByScore(_, _)
InsertByScore(sorted, e) ==
  IF sorted = <<>> THEN <<e>>
  ELSE IF Head(sorted).score >= e.score
    THEN <<Head(sorted)>> \o InsertByScore(Tail(sorted), e)
    ELSE <<e>> \o sorted

\* file_scores.sort(key=lambda x: x[1], reverse=True): a stable sort
RECURSIVE SortByScore(_, _)
SortByScore(fs, sorted) ==
  IF fs = <<>> THEN sorted
  ELSE SortByScore(Tail(fs), InsertByScore(sorted, Head(fs)))

NameMain == <<"m", "a", "i", "n", ".", "r", "s">>

NameLib == <<"l", "i", "b", ".", "r", "s">>

fallback_files ==
  <<PathJoin(ProjectRoot, NameMain),
    PathJoin(PathJoin(ProjectRoot, DirSrc), NameMain),
    PathJoin(PathJoin(ProjectRoot, DirSrc), NameLib)>>

\* mutant: the fallback files are not looked at
MainFileChoice_NoFallback(scores, files) ==
  IF scores # <<>> THEN Some(SortByScore(scores, <<>>)[1].path)
  ELSE IF files # <<>> THEN Some(files[1].path)
  ELSE None

\* lines 471-491: what is returned after the scoring loop
MainFileChoice(scores, files) ==
  IF scores # <<>> THEN Some(SortByScore(scores, <<>>)[1].path)
  ELSE IF FirstExisting(fallback_files) # None THEN FirstExisting(fallback_files)
  ELSE IF files # <<>> THEN Some(files[1].path)
  ELSE None

\* lines 443-449
FindMainStart ==
  /\ pc = "find_main"
  /\ identifiers' = _extract_identifiers_from_prompt(prompt)
  /\ rust_files' \in _find_rust_files
  /\ fi' = 1
  /\ file_scores' = <<>>
  /\ pc' = "score"
  /\ UNCHANGED <<max_context_items, context, collected, prompt, main_file>>
  /\ UNCHANGED <<pvars, mvars, evars, dvars, wvars, svars>>

\* lines 451-453 and 468-469: the file cannot be read
ScoreSkipUnreadable ==
  /\ pc = "score" /\ fi <= Len(rust_files)
  /\ ~rust_files[fi].readable
  /\ fi' = fi + 1
  /\ UNCHANGED <<pc, rust_files, identifiers, max_context_items, context,
                 collected>>
  /\ UNCHANGED <<pvars, mvars, evars, dvars, wvars, qvars, svars>>

\* lines 451-466
ScoreFile ==
  /\ pc = "score" /\ fi <= Len(rust_files)
  /\ rust_files[fi].readable
  /\ LET score == Score(rust_files[fi].content, identifiers)
     IN file_scores' =
          IF score > 0
            THEN Append(file_scores,
                        [path |-> rust_files[fi].path, score |-> score])
            ELSE file_scores
  /\ fi' = fi + 1
  /\ UNCHANGED <<pc, rust_files, identifiers, max_context_items, context,
                 collected, prompt, main_file>>
  /\ UNCHANGED <<pvars, mvars, evars, dvars, wvars, svars>>

\* lines 471-491
FindMainReturn ==
  /\ pc = "score" /\ fi > Len(rust_files)
  /\ main_file' = MainFileChoice(file_scores, rust_files)
  /\ pc' = "main_found"
  /\ UNCHANGED <<prompt, file_scores>>
  /\ UNCHANGED <<pvars, mvars, cvars, evars, dvars, wvars, svars>>

----------------------------------------------------------------------------
(* Inputs of _find_main_file_for_prompt *)

\* '', 'P' in quotes, x, fn, and 'P' in quotes followed by x
Prompts ==
  {<<>>, <<"'", "P", "'">>, <<"x">>, <<"f", "n">>,
   <<"'", "P", "'", " ", "x">>}

\* /r/main.rs, /r/src/main.rs, /r/src/lib.rs, /r/a/m.rs
SourcePaths ==
  {ProjectRoot \o <<NameMain>>, ProjectRoot \o <<DirSrc, NameMain>>,
   ProjectRoot \o <<DirSrc, NameLib>>, ProjectRoot \o <<<<"a">>, NameM>>}

SourceFiles ==
  [path : SourcePaths, content : {TextStruct, TextTwice, TextOther},
   readable : BOOLEAN]

\* the projects of up to MaxFiles + 1 source files
SourceDisks ==
  {d \in SUBSET SourceFiles :
     /\ Cardinality(d) <= MaxFiles + 1
     /\ \A f, g \in d : f.path = g.path => f = g}

InitFindMain ==
  /\ pc = "find_main"
  /\ prompt \in Prompts
  /\ disk \in SourceDisks
  /\ root_exists \in BOOLEAN
  /\ disk # {} => root_exists
  /\ file_scores = <<>> /\ main_file = None
  /\ IdleP /\ IdleM /\ IdleC /\ IdleE /\ IdleW /\ IdleS

NextFindMain ==
  \/ FindMainStart
  \/ ScoreSkipUnreadable
  \/ ScoreFile
  \/ FindMainReturn

SpecFindMain == InitFindMain /\ [][NextFindMain]_vars

----------------------------------------------------------------------------
(* Claims about _find_main_file_for_prompt *)

FindMainReturned == pc = "main_found"

\* the score of the k-th enumerated file, 0 for a file that cannot be read
FileScore(k) ==
  IF rust_files[k].readable
    THEN Score(rust_files[k].content, identifiers)
    ELSE 0

SomeFileScores == \E k \in 1..Len(rust_files) : FileScore(k) > 0

\* C13: when some readable file has a score above zero,
\* _find_main_file_for_prompt returns a readable file of maximal score, and
\* of the files of that score the one enumerated first.
C13_MaxScoreFirst ==
  (FindMainReturned /\ SomeFileScores) =>
    /\ main_file # None
    /\ \E k \in 1..Len(rust_files) :
         /\ rust_files[k].path = main_file[1]
         /\ rust_files[k].readable
         /\ \A j \in 1..Len(rust_files) : FileScore(j) <= FileScore(k)
         /\ \A j \in 1..(k - 1) : FileScore(j) < FileScore(k)

\* two readable files share the maximal score, a file of a lower score is
\* enumerated before them, and the first of the two was returned
C13_Witness ==
  /\ FindMainReturned
  /\ \E h, j, k \in 1..Len(rust_files) :
       /\ h < j /\ j < k
       /\ 0 < FileScore(h) /\ FileScore(h) < FileScore(j)
       /\ FileScore(j) = FileScore(k)
       /\ \A n \in 1..Len(rust_files) : FileScore(n) <= FileScore(j)
       /\ main_file = Some(rust_files[j].path)

\* the fallback file of the project, None when it has none
FallbackFile ==
  IF exists(ProjectRoot \o <<NameMain>>)
    THEN Some(ProjectRoot \o <<NameMain>>)
  ELSE IF exists(ProjectRoot \o <<DirSrc, NameMain>>)
    THEN Some(ProjectRoot \o <<DirSrc, NameMain>>)
  ELSE IF exists(ProjectRoot \o <<DirSrc, NameLib>>)
    THEN Some(ProjectRoot \o <<DirSrc, NameLib>>)
  ELSE None

\* C14: when no enumerated file scores above zero, _find_main_file_for_prompt
\* returns the first existing of main.rs, src/main.rs and src/lib.rs under the
\* project root; when none exists, the first enumerated file; when there is
\* no file, None.
C14_Fallback ==
  (FindMainReturned /\ ~SomeFileScores) =>
    main_file =
      IF FallbackFile # None THEN FallbackFile
      ELSE IF Len(rust_files) >= 1 THEN Some(rust_files[1].path)
      ELSE None

\* no file scored, src/lib.rs was returned though another file is the first
\* of the enumeration
C14_Witness ==
  /\ FindMainReturned /\ ~SomeFileScores
  /\ Len(rust_files) >= 2
  /\ rust_files[1].path = ProjectRoot \o <<<<"a">>, NameM>>
  /\ main_file = Some(ProjectRoot \o <<DirSrc, NameLib>>)

----------------------------------------------------------------------------
(* Claims about a missing project root *)

\* C15: when the project root does not exist, _find_relevant_file returns
\* None and collect returns the empty list, and nothing is raised.
C15_MissingRoot ==
  ~exists(ProjectRoot) =>
    /\ FindReturned => original_file_path = None
    /\ pc = "collected" => collected = Some(<<>>)

\* C15, for the prompt: when the project root does not exist,
\* _find_main_file_for_prompt returns None.
MissingRootNoMainFile ==
  (FindMainReturned /\ ~exists(ProjectRoot)) => main_file = None

----------------------------------------------------------------------------
(* Claims about the files collect cannot read *)

CollectReturned == pc = "collected"

\* the enumeration without the files that cannot be read
ReadableFiles(files) == SelectSeq(files, LAMBDA f : f.readable)

\* what the readable files files[k..] contribute, in order
RECURSIVE SnippetsFrom(_, _)
SnippetsFrom(files, k) ==
  IF k > Len(files) THEN <<>>
  ELSE (IF _is_relevant_file(files[k].content, identifiers)
          THEN _extract_relevant_snippets(files[k].content, identifiers,
                                          files[k].path)
          ELSE <<>>) \o SnippetsFrom(files, k + 1)

\* C16: a file that cannot be read contributes nothing and collect goes on:
\* it returns what it returns for the enumeration without that file.
C16_UnreadableSkipped ==
  CollectReturned =>
    collected =
      Some(PySliceTo(SnippetsFrom(ReadableFiles(rust_files), 1),
                     max_context_items))

\* an unreadable file came before a file whose snippets were returned
C16_Witness ==
  /\ CollectReturned
  /\ Len(rust_files) >= 2
  /\ ~rust_files[1].readable
  /\ rust_files[2].readable
  /\ Len(collected[1]) >= 1

----------------------------------------------------------------------------
(* Claims about the relevance of what collect returns *)

\* the text of an item: what follows the line of its label
ItemText(item) == SubSeq(item, QuoteAt(item, 1, NL) + 1, Len(item))

\* the item is a snippet of file f with this text
IsItemOf(item, f) ==
  LET name == PathName(f.path)
      text == ItemText(item)
  IN  /\ f.readable
      /\ Contains(f.content, text)
      /\ \/ item = FormatSnippet(name, text)
         \/ \E block_type \in {"struct", "impl", "fn"} :
              item = FormatBlock(name, block_type, text)

PartOnlyFileGivesNothing ==
  /\ CollectReturned
  /\ collected[1] = <<>>
  /\ \E n \in 1..Len(rust_files) :
       /\ rust_files[n].readable
       /\ _is_relevant_file(rust_files[n].content, identifiers)

----------------------------------------------------------------------------
(* Claims about the results of process_diff_file and process_diff *)

ProcessReturned == pc = "returned"

\* process_diff was entered and parse rejected the diff
ParseRejected == caller # "" /\ result.status = "error"

\* C18: when parse rejects the diff, process_diff returns without a call of
\* generate_suggestion, and the failure it returns carries the parser's
\* error.
C18_ParseErrorReported ==
  (ProcessReturned /\ ParseRejected) =>
    /\ suggest_calls = <<>>
    /\ ~workflow_result[1].success
    /\ workflow_result[1].error_message # None
    /\ workflow_result[1].error_message[1][2] = result.error

\* the part of C18 about the suggestion step
RejectedDiffNotSuggested ==
  (ProcessReturned /\ ParseRejected) =>
    suggest_calls = <<>> /\ ~workflow_result[1].success

\* C19: what process_diff_file and process_diff return is a WorkflowResult:
\* a failure has success = False, an error_message and no suggestion_result,
\* and the message of an LLM failure holds what the collaborator raised; a
\* success has a suggestion_result and no error_message, and comes only
\* from a call of generate_suggestion that returned.
C19_WellFormedResult ==
  ProcessReturned =>
    /\ workflow_result # None
    /\ LET r == workflow_result[1]
       IN  /\ r.success =>
                /\ r.suggestion_result # None /\ r.error_message = None
                /\ suggest_calls # <<>> /\ ~suggest_calls[1].raised
           /\ ~r.success =>
                r.suggestion_result = None /\ r.error_message # None
           /\ (suggest_calls # <<>> /\ suggest_calls[1].raised) =>
                /\ ~r.success
                /\ r.error_message[1][2] = suggest_calls[1].message

\* the LLM collaborator raised and the failure carries its message
C19_Witness ==
  /\ ProcessReturned
  /\ suggest_calls # <<>> /\ suggest_calls[1].raised
  /\ suggest_calls[1].message = "LLM API Error"
  /\ workflow_result[1].error_message = Some(<<MsgWorkflowError, "LLM API Error">>)

----------------------------------------------------------------------------
(* The daemon: POST /suggest and POST /apply over pending_suggestions.  A
   handler runs without interruption up to an await: /suggest has one, the
   call of process_diff; /apply has none. *)

HTTPException(endpoint, id, status) ==
  [endpoint |-> endpoint, request_id |-> id, status |-> status]

SuggestionResponse(success, is_valid, requires_confirmation, suggestion_id) ==
  [endpoint |-> "suggest", request_id |-> 0, status |-> 200,
   success |-> success, is_valid |-> is_valid,
   requires_confirmation |-> requires_confirmation,
   suggestion_id |-> suggestion_id]

ApplyResponse(id, success, message) ==
  [endpoint |-> "apply", request_id |-> id, status |-> 200,
   success |-> success, message |-> message]

\* mutant: the id is returned whatever the validation said
DisclosedId_Always(suggestion_id, is_valid) == Some(suggestion_id)

\* "suggestion_id if result.suggestion_result.is_valid else None"
DisclosedId(suggestion_id, is_valid) ==
  IF is_valid = Some(TRUE) THEN Some(suggestion_id) ELSE None

PendingIds == {e.suggestion_id : e \in pending_suggestions}

\* mutant: the entry stays
RemovePending_Keep(suggestion_id) == pending_suggestions

\* "del pending_suggestions[request.suggestion_id]"
RemovePending(suggestion_id) ==
  {e \in pending_suggestions : e.suggestion_id # suggestion_id}

\* final_diff and is_valid of a SuggestionResult: Optional[str], Optional[bool]
FinalDiffs == {None, Some(<<>>), Some(<<" ">>), Some(<<"d">>)}

Validities == {None, Some(TRUE), Some(FALSE)}

\* "not final_diff or not final_diff.strip()"
NothingToApply(final_diff) ==
  IF final_diff = None THEN TRUE ELSE strip(final_diff[1]) = <<>>

\* the ids a client can send: those a /suggest response gave it, and 0, an
\* id that uuid4 never made
ClientIds == disclosed \cup {0}

\* the diffs a client can send: empty, blank, not blank
RequestDiffs == {<<>>, <<" ">>, <<"d">>}

Serving == pc = "serve"

\* lines 137-138: "if not request.diff_content or not ...strip()"
SuggestBadRequest ==
  /\ Serving
  /\ \E dc \in RequestDiffs :
       /\ strip(dc) = <<>>
       /\ response' = HTTPException("suggest", 0, 400)
  /\ UNCHANGED <<pending_suggestions, uuid_count, awaiting, issued, disclosed,
                 answered, apply_log>>
  /\ UNCHANGED <<pc, pvars, mvars, cvars, evars, dvars, wvars, qvars>>

\* lines 137-153: the handler up to "await workflow.process_diff(...)"
SuggestAwait ==
  /\ Serving
  /\ \E dc \in RequestDiffs : strip(dc) # <<>>
  /\ uuid_count + awaiting < MaxSuggestions
  /\ awaiting' = awaiting + 1
  /\ UNCHANGED <<pending_suggestions, uuid_count, issued, disclosed, answered,
                 apply_log, response>>
  /\ UNCHANGED <<pc, pvars, mvars, cvars, evars, dvars, wvars, qvars>>

\* lines 159-202: process_diff returned a success with a suggestion_result
SuggestStore ==
  /\ Serving
  /\ awaiting > 0
  /\ \E final_diff \in FinalDiffs, is_valid \in Validities :
       LET suggestion_id == uuid_count + 1
       IN  /\ uuid_count' = suggestion_id
           /\ pending_suggestions' = pending_suggestions \cup
                {[suggestion_id |-> suggestion_id, final_diff |-> final_diff]}
           /\ issued' = Append(issued, [final_diff |-> final_diff,
                                        is_valid |-> is_valid])
           /\ response' = SuggestionResponse(TRUE, is_valid, is_valid,
                            DisclosedId(suggestion_id, is_valid))
           /\ disclosed' = disclosed \cup
                {id \in {suggestion_id} : DisclosedId(suggestion_id, is_valid) = Some(id)}
  /\ awaiting' = awaiting - 1
  /\ UNCHANGED <<answered, apply_log>>
  /\ UNCHANGED <<pc, pvars, mvars, cvars, evars, dvars, wvars, qvars>>

\* lines 203-208: process_diff returned a failure
SuggestFail ==
  /\ Serving
  /\ awaiting > 0
  /\ awaiting' = awaiting - 1
  /\ response' = SuggestionResponse(FALSE, None, None, None)
  /\ UNCHANGED <<pending_suggestions, uuid_count, issued, disclosed, answered,
                 apply_log>>
  /\ UNCHANGED <<pc, pvars, mvars, cvars, evars, dvars, wvars, qvars>>

\* lines 224-225
ApplyNotFound ==
  /\ Serving
  /\ \E id \in ClientIds :
       /\ id \notin PendingIds
       /\ response' = HTTPException("apply", id, 404)
  /\ UNCHANGED <<pending_suggestions, uuid_count, awaiting, issued, disclosed,
                 answered, apply_log>>
  /\ UNCHANGED <<pc, pvars, mvars, cvars, evars, dvars, wvars, qvars>>

\* lines 230-236: accept is false
ApplyReject ==
  /\ Serving
  /\ \E id \in ClientIds :
       /\ id \in PendingIds
       /\ pending_suggestions' = RemovePending(id)
       /\ answered' = answered \cup {id}
       /\ response' = ApplyResponse(id, TRUE, "Suggestion rejected by user")
  /\ UNCHANGED <<uuid_count, awaiting, issued, disclosed, apply_log>>
  /\ UNCHANGED <<pc, pvars, mvars, cvars, evars, dvars, wvars, qvars>>

\* lines 239-247: accept is true and there is nothing to apply
ApplyEmptyDiff ==
  /\ Serving
  /\ \E e \in pending_suggestions :
       /\ e.suggestion_id \in ClientIds
       /\ NothingToApply(e.final_diff)
       /\ pending_suggestions' = RemovePending(e.suggestion_id)
       /\ answered' = answered \cup {e.suggestion_id}
       /\ response' = ApplyResponse(e.suggestion_id, TRUE,
                                    "No changes to apply (empty diff)")
  /\ UNCHANGED <<uuid_count, awaiting, issued, disclosed, apply_log>>
  /\ UNCHANGED <<pc, pvars, mvars, cvars, evars, dvars, wvars, qvars>>

\* what _apply_diff_to_project returns: the patch applied, "git apply
\* --check" failed, "git apply" failed, or an exception it caught
ApplyOutcomes ==
  {[success |-> TRUE, message |-> "Successfully applied diff"],
   [success |-> FALSE, message |-> "Diff validation failed"],
   [success |-> FALSE, message |-> "Failed to apply diff"],
   [success |-> FALSE, message |-> "Unexpected error applying diff"]}

\* lines 249-255: accept is true, _apply_diff_to_project runs, the entry is
\* deleted after it
ApplyDiff ==
  /\ Serving
  /\ Len(apply_log) < MaxApplied
  /\ \E e \in pending_suggestions, out \in ApplyOutcomes :
       /\ e.suggestion_id \in ClientIds
       /\ ~NothingToApply(e.final_diff)
       /\ apply_log' = IF out.success THEN Append(apply_log, e.suggestion_id)
                       ELSE apply_log
       /\ pending_suggestions' = RemovePending(e.suggestion_id)
       /\ answered' = answered \cup {e.suggestion_id}
       /\ response' = ApplyResponse(e.suggestion_id, out.success, out.message)
  /\ UNCHANGED <<uuid_count, awaiting, issued, disclosed>>
  /\ UNCHANGED <<pc, pvars, mvars, cvars, evars, dvars, wvars, qvars>>

InitDaemon ==
  /\ pc = "serve"
  /\ pending_suggestions = {} /\ uuid_count = 0 /\ awaiting = 0
  /\ issued = <<>> /\ disclosed = {} /\ answered = {} /\ apply_log = <<>>
  /\ response = NoResponse
  /\ IdleP /\ IdleM /\ IdleC /\ IdleE /\ IdleD /\ IdleW /\ IdleQ

NextDaemon ==
  \/ SuggestBadRequest
  \/ SuggestAwait
  \/ SuggestStore
  \/ SuggestFail
  \/ ApplyNotFound
  \/ ApplyReject
  \/ ApplyEmptyDiff
  \/ ApplyDiff

SpecDaemon == InitDaemon /\ [][NextDaemon]_vars

----------------------------------------------------------------------------
(* Claims about the line numbers given during the scan *)

\* the change appended by the step, if the step appended one
Appended(t, n) ==
  /\ Len(current_changes') = Len(current_changes) + 1
  /\ SubSeq(current_changes', 1, Len(current_changes)) = current_changes
  /\ current_changes'[Len(current_changes')].change_type = t
  /\ current_changes'[Len(current_changes')].line_number = n

\* what the scan of lines[i] does to the counters and to current_changes,
\* for a line that is not a file header
NumberingStep ==
  (Scanning /\ ~IsFileHeader(lines[i])) =>
    LET line == lines[i]
    IN  CASE IsHunkHeader(line) ->
               /\ old_line_num' = hunk_header_pattern(line).group1
               /\ new_line_num' = hunk_header_pattern(line).group2
               /\ line = LineHunk => (old_line_num' = 3 /\ new_line_num' = 5)
               /\ current_changes' = current_changes
          [] ~IsHunkHeader(line) /\ Len(line) > 0 /\ line[1] = "-" ->
               /\ Appended(DELETION, old_line_num)
               /\ old_line_num' = old_line_num + 1
               /\ new_line_num' = new_line_num
          [] ~IsHunkHeader(line) /\ Len(line) > 0 /\ line[1] = "+" ->
               /\ Appended(ADDITION, new_line_num)
               /\ old_line_num' = old_line_num
               /\ new_line_num' = new_line_num + 1
          [] OTHER ->
               \/ /\ Appended(CONTEXT, old_line_num)
                  /\ old_line_num' = old_line_num + 1
                  /\ new_line_num' = new_line_num + 1
               \/ /\ current_changes' = current_changes
                  /\ old_line_num' = old_line_num
                  /\ new_line_num' = new_line_num

\* the positions of chs that are not an Addition right after a Deletion
KeptPositions(chs) ==
  SelectSeq([k \in 1..Len(chs) |-> k],
            LAMBDA k : ~(/\ k > 1
                         /\ chs[k].change_type = ADDITION
                         /\ chs[k - 1].change_type = DELETION))

\* every change of the returned model has the number it was given in the
\* scan, and a Modification has the number of the Deletion it was made from
ModificationNumbers ==
  pc = "done" =>
    \A f \in 1..Len(result.file_changes) :
      LET scanned == file_changes[f].changes
          paired == result.file_changes[f].changes
          kept == KeptPositions(scanned)
      IN  /\ Len(paired) = Len(kept)
          /\ \A k \in 1..Len(paired) :
               /\ paired[k].line_number = scanned[kept[k]].line_number
               /\ paired[k].change_type = MODIFICATION =>
                    scanned[kept[k]].change_type = DELETION

\* C20: a hunk header sets the old and the new counter to its two numbers; a
\* "-" line becomes a Deletion numbered with the old counter and increments
\* the old counter only; a "+" line becomes an Addition numbered with the
\* new counter and increments the new counter only; a Context line is
\* numbered with the old counter and increments both; a Modification has
\* the number of its Deletion.
C20_LineNumbering == [][NumberingStep]_vars /\ []ModificationNumbers

\* the hunk header "@@ -3,2 +5 @@", a "-" line and a "+" line were scanned,
\* numbered 3 and 5, and returned as one Modification numbered 3
C20_Witness ==
  /\ pc = "done"
  /\ lines = <<LineHeaderX, LinePlusX, LineHunk, LineDel, LineAdd>>
  /\ \E f \in 1..Len(result.file_changes) :
       /\ file_changes[f].changes =
            <<DiffChange(3, DELETION, Some(<<"p">>), None),
              DiffChange(5, ADDITION, None, Some(<<"q">>))>>
       /\ result.file_changes[f].changes =
            <<DiffChange(3, MODIFICATION, Some(<<"p">>), Some(<<"q">>))>>

\* the scan of a file header that is followed by its "+++" line leaves both
\* counters at 0
HeaderStep ==
  (Scanning /\ IsFileHeader(lines[i]) /\ pc' = "scan") =>
    (old_line_num' = 0 /\ new_line_num' = 0)

\* C21: each "--- a/<name>" file header resets the old and the new counter
\* to 0, whatever a previous file section or hunk header left in them.
C21_HeaderResetsCounters == [][HeaderStep]_vars

\* a Deletion scanned in a file section without a hunk header is numbered 0
FirstSectionFromZero ==
  (pc = "scan" /\ lines = <<LineHeaderX, LinePlusX, LineDel>> /\ i = 4) =>
    current_changes = <<DiffChange(0, DELETION, Some(<<"p">>), None)>>

----------------------------------------------------------------------------
(* Claims about the lines recorded as Context *)

\* the line with one leading space removed, if it has one
WithoutLeadingSpace(line) ==
  IF Len(line) > 0 /\ line[1] = " " THEN SubSeq(line, 2, Len(line)) ELSE line

\* a line scanned inside an open file section that is no header and begins
\* with neither "-" nor "+"
OtherBodyLine ==
  /\ Scanning
  /\ current_file # None
  /\ ~IsFileHeader(lines[i]) /\ ~IsHunkHeader(lines[i])
  /\ ~(Len(lines[i]) > 0 /\ lines[i][1] \in {"-", "+"})

\* the scan of such a line appends one Context change with the line's text
ContextStep ==
  OtherBodyLine =>
    /\ Len(current_changes') = Len(current_changes) + 1
    /\ SubSeq(current_changes', 1, Len(current_changes)) = current_changes
    /\ LET ch == current_changes'[Len(current_changes')]
       IN  /\ ch.change_type = CONTEXT
           /\ ch.old_line = Some(WithoutLeadingSpace(lines[i]))
           /\ ch.new_line = Some(WithoutLeadingSpace(lines[i]))

\* C22: once a file section is open, every line that is no recognized file
\* or hunk header and begins with neither "-" nor "+" is recorded as one
\* Context change whose two texts are the line without one leading space;
\* no such line is dropped.
C22_ContextRecorded == [][ContextStep]_vars

\* the same for the lines that do not begin with "@@"
ContextStepNotAtAt ==
  (OtherBodyLine /\ ~startswith(lines[i], <<"@", "@">>)) => ContextStep

OtherLinesRecorded == [][ContextStepNotAtAt]_vars

----------------------------------------------------------------------------
(* Claims about the names of a FileChange *)

RECURSIVE BeforeTab(_)
\* the text up to its first tab
BeforeTab(t) ==
  IF t = <<>> \/ Head(t) = TAB THEN <<>> ELSE <<Head(t)>> \o BeforeTab(Tail(t))

\* the name a "--- a/<name>" line gives, metadata after a tab left out
HeaderName(line) == BeforeTab(SubSeq(line, Len(FileHeaderPrefix) + 1, Len(line)))

\* C23: when parse has returned, each FileChange is named as its "--- a/"
\* line without the tab and the metadata after it: filename is <name>,
\* old_filename a/<name> and new_filename b/<name>.
C23_MetadataTrimmed ==
  pc = "done" =>
    LET L == InputLines
        hs == SortedSeq(HeaderPositions(L))
        fcs == result.file_changes
    IN  \A n \in 1..Len(fcs) :
          n <= Len(hs) =>
            /\ fcs[n].filename = HeaderName(L[hs[n]])
            /\ fcs[n].old_filename = <<"a", "/">> \o HeaderName(L[hs[n]])
            /\ fcs[n].new_filename = <<"b", "/">> \o HeaderName(L[hs[n]])

\* the same for the headers without a tab
NamesWithoutMetadata ==
  pc = "done" =>
    LET L == InputLines
        hs == SortedSeq(HeaderPositions(L))
        fcs == result.file_changes
    IN  \A n \in 1..Len(fcs) :
          (n <= Len(hs) /\ HeaderName(L[hs[n]]) = file_header_pattern(L[hs[n]]).group1) =>
            /\ fcs[n].filename = HeaderName(L[hs[n]])
            /\ fcs[n].old_filename = <<"a", "/">> \o HeaderName(L[hs[n]])
            /\ fcs[n].new_filename = <<"b", "/">> \o HeaderName(L[hs[n]])

----------------------------------------------------------------------------
(* Claims about the pairing pass as parse applies it *)

\* C29: in every FileChange parse returns no Deletion is immediately
\* followed by an Addition, and _detect_modifications applied to the changes
\* of a returned FileChange gives the same changes.
C29_PairingIdempotent ==
  pc = "done" =>
    \A n \in 1..Len(result.file_changes) :
      LET chs == result.file_changes[n].changes
      IN  /\ \A k \in 1..(Len(chs) - 1) :
               ~(chs[k].change_type = DELETION /\ chs[k + 1].change_type = ADDITION)
          /\ _detect_modifications(chs) = chs

\* parse has returned a FileChange whose scanned changes were a Deletion,
\* a Deletion and an Addition, paired into a Deletion and a Modification
C29_Witness ==
  /\ pc = "done"
  /\ \E n \in 1..Len(result.file_changes) :
       /\ Len(file_changes[n].changes) = 3
       /\ file_changes[n].changes[1].change_type = DELETION
       /\ file_changes[n].changes[2].change_type = DELETION
       /\ file_changes[n].changes[3].change_type = ADDITION
       /\ Len(result.file_changes[n].changes) = 2
       /\ result.file_changes[n].changes[2].change_type = MODIFICATION

----------------------------------------------------------------------------
(* Claims about the relevance pre-filter of collect *)

\* what the readable files files[k..] contribute when every one of them is
\* scanned, relevant or not
RECURSIVE UnfilteredSnippetsFrom(_, _)
UnfilteredSnippetsFrom(files, k) ==
  IF k > Len(files) THEN <<>>
  ELSE _extract_relevant_snippets(files[k].content, identifiers, files[k].path)
         \o UnfilteredSnippetsFrom(files, k + 1)

\* C30: a file that _is_relevant_file rejects has no snippet, so collect
\* returns what a collector without the pre-filter returns.
C30_FilterChangesNothing ==
  CollectReturned =>
    /\ \A n \in 1..Len(rust_files) :
         (rust_files[n].readable
            /\ ~_is_relevant_file(rust_files[n].content, identifiers)) =>
           _extract_relevant_snippets(rust_files[n].content, identifiers,
                                      rust_files[n].path) = <<>>
    /\ collected =
         Some(PySliceTo(UnfilteredSnippetsFrom(ReadableFiles(rust_files), 1),
                        max_context_items))

\* the same for identifiers made of ASCII characters, as extract_identifiers
\* returns them
AsciiFilterChangesNothing ==
  (CollectReturned /\ \A id \in identifiers : Range(id) \subseteq WordChars) =>
    collected =
      Some(PySliceTo(UnfilteredSnippetsFrom(ReadableFiles(rust_files), 1),
                     max_context_items))

----------------------------------------------------------------------------
(* Claims about the order of what collect returns *)

\* the sequence without the later occurrences of its elements
RECURSIVE FirstOccurrences(_, _)
FirstOccurrences(seq, k) ==
  IF k > Len(seq) THEN <<>>
  ELSE (IF \E j \in 1..(k - 1) : seq[j] = seq[k] THEN <<>> ELSE <<seq[k]>>)
         \o FirstOccurrences(seq, k + 1)

\* the line-window snippets of file f from line k on, in line order
RECURSIVE WindowsOf(_, _, _)
WindowsOf(f, ls, k) ==
  IF k > Len(ls) THEN <<>>
  ELSE (IF \E id \in identifiers : Contains(ls[k], id)
          THEN <<FormatSnippet(PathName(f.path), WindowSnippet(ls, k))>>
          ELSE <<>>) \o WindowsOf(f, ls, k + 1)

\* the block snippets of one type of file f, for the matches ms[k..]
RECURSIVE BlocksOf(_, _, _, _)
BlocksOf(f, block_type, ms, k) ==
  IF k > Len(ms) THEN <<>>
  ELSE (IF MatchIsRelevant(block_type, ms[k], identifiers)
          THEN <<FormatBlock(PathName(f.path), block_type,
                   join(NL, BlockLines(f.content, split(f.content, NL), ms[k].start)))>>
          ELSE <<>>) \o BlocksOf(f, block_type, ms, k + 1)

\* the windows of f, then its struct, impl and fn blocks
OrderedSnippets(f) ==
  FirstOccurrences(
    WindowsOf(f, split(f.content, NL), 1)
      \o BlocksOf(f, "struct", finditer("struct", f.content, 1), 1)
      \o BlocksOf(f, "impl", finditer("impl", f.content, 1), 1)
      \o BlocksOf(f, "fn", finditer("fn", f.content, 1), 1), 1)

\* the snippets of the relevant readable files files[k..], in the order of
\* the enumeration
RECURSIVE Concatenation(_, _)
Concatenation(files, k) ==
  IF k > Len(files) THEN <<>>
  ELSE (IF files[k].readable /\ _is_relevant_file(files[k].content, identifiers)
          THEN OrderedSnippets(files[k]) ELSE <<>>)
         \o Concatenation(files, k + 1)

\* C24: with max_context_items >= 0, collect returns the first
\* min(max_context_items, total) entries of the concatenation, in the order
\* of the enumeration, of the snippet lists of the relevant files, each list
\* holding the line windows in line order and then the struct, the impl and
\* the fn blocks.
C24_EnumerationOrder ==
  (CollectReturned /\ max_context_items >= 0) =>
    LET all == Concatenation(rust_files, 1)
        n == IF max_context_items < Len(all) THEN max_context_items ELSE Len(all)
    IN  collected = Some(SubSeq(all, 1, n))

\* collect has returned, from the second of two relevant files, a window, an
\* impl block and an fn block in this order, after an entry of the first
\* file
C24_Witness ==
  /\ CollectReturned
  /\ Len(rust_files) = 2
  /\ rust_files[1].content = TextStruct /\ rust_files[1].readable
  /\ rust_files[2].content = TextImpl /\ rust_files[2].readable
  /\ PathName(rust_files[1].path) # PathName(rust_files[2].path)
  /\ identifiers = {<<"P">>, <<"f">>}
  /\ \E a, b, c, e \in 1..Len(collected[1]) :
       /\ a < b /\ b < c /\ c < e
       /\ IsItemOf(collected[1][a], rust_files[1])
       /\ collected[1][b] =
            FormatSnippet(PathName(rust_files[2].path), ItemText(collected[1][b]))
       /\ collected[1][c] =
            FormatBlock(PathName(rust_files[2].path), "impl", ItemText(collected[1][c]))
       /\ collected[1][e] =
            FormatBlock(PathName(rust_files[2].path), "fn", ItemText(collected[1][e]))

----------------------------------------------------------------------------
(* Claims about the structural blocks *)

\* lines d..e hold a "{"
Opened(ls, d, e) == \E j \in d..e : Contains(ls[j], <<"{">>)

\* "{" minus "}" over the lines from the first line of d..e with a "{" to e
RECURSIVE NetBraces(_, _, _)
NetBraces(ls, d, e) ==
  IF d > e THEN 0
  ELSE IF ~Contains(ls[d], <<"{">>) THEN NetBraces(ls, d + 1, e)
  ELSE LET total[j \in d..e] ==
             count(ls[j], "{") - count(ls[j], "}")
               + (IF j = d THEN 0 ELSE total[j - 1])
       IN  total[e]

\* the block that starts at line d ends at line e
BlockEndsAt(ls, d, e) ==
  \/ Opened(ls, d, e) /\ NetBraces(ls, d, e) <= 0
  \/ e = d + 19
  \/ e = Len(ls)

\* line d of file f is the line of a struct, impl or fn declaration of this
\* type whose name is an identifier
IsDeclarationLine(f, block_type, d) ==
  \E k \in 1..Len(f.content) :
    /\ PatternAt(block_type, f.content, k).matched
    /\ MatchIsRelevant(block_type, PatternAt(block_type, f.content, k), identifiers)
    /\ d = 1 + count(SubSeq(f.content, 1, k - 1), NL)

\* the item is the block of this type that starts at line d of f and ends
\* at the first line where a block ends
IsBlockOf(item, f, block_type, d) ==
  LET ls == split(f.content, NL)
  IN  /\ f.readable
      /\ IsDeclarationLine(f, block_type, d)
      /\ \E e \in d..Len(ls) :
           /\ BlockEndsAt(ls, d, e)
           /\ \A j \in d..(e - 1) : ~BlockEndsAt(ls, d, j)
           /\ e - d + 1 <= 20
           /\ item = FormatBlock(PathName(f.path), block_type,
                                 join(NL, SubSeq(ls, d, e)))

\* the entry is labelled as a block
IsBlockItem(item) ==
  \E n \in 1..Len(rust_files) : \E block_type \in {"struct", "impl", "fn"} :
    item = FormatBlock(PathName(rust_files[n].path), block_type, ItemText(item))

\* C25: every block collect returns starts at the line of a struct, impl or
\* fn declaration whose name is an identifier and ends at the first line at
\* which, a "{" having been read, the "{" read are no more than the "}"
\* read, or after 20 lines; it has at most 20 lines.
C25_BoundedBlocks ==
  CollectReturned =>
    \A k \in 1..Len(collected[1]) :
      IsBlockItem(collected[1][k]) =>
        /\ \E n \in 1..Len(rust_files) :
             \E block_type \in {"struct", "impl", "fn"} :
               \E d \in 1..Len(split(rust_files[n].content, NL)) :
                 IsBlockOf(collected[1][k], rust_files[n], block_type, d)
        /\ count(ItemText(collected[1][k]), NL) + 1 <= 20

\* collect has returned a block of 20 lines cut out of a function of more
\* lines whose brace is never closed
C25_Witness ==
  /\ CollectReturned
  /\ \E n \in 1..Len(rust_files) : \E k \in 1..Len(collected[1]) :
       /\ rust_files[n].content = TextLong
       /\ Len(split(rust_files[n].content, NL)) > 20
       /\ IsBlockOf(collected[1][k], rust_files[n], "fn", 1)
       /\ count(ItemText(collected[1][k]), NL) + 1 = 20

\* a block that ends on a line with more "}" than "{" were read
OverClosedBlock ==
  /\ CollectReturned
  /\ \E n \in 1..Len(rust_files) : \E k \in 1..Len(collected[1]) :
       /\ rust_files[n].content = TextOver
       /\ IsBlockOf(collected[1][k], rust_files[n], "fn", 1)
       /\ ItemText(collected[1][k]) = <<"f", "n", " ", "f", "(", ")", " ", "{", "}", "}">>

----------------------------------------------------------------------------
(* Claims about the daemon *)

\* a new response to an /apply that names an id an earlier /apply has acted
\* on is a 404
ApplyAgain ==
  (/\ response' # response
   /\ response'.endpoint = "apply"
   /\ response'.request_id \in answered) => response'.status = 404

\* C26: an /apply that acts on a pending suggestion removes its id, whatever
\* it does with it, so a later /apply with that id is answered 404; no id is
\* applied to the project twice.
C26_ConsumedOnce ==
  /\ [](answered \cap PendingIds = {})
  /\ [](\A a, b \in 1..Len(apply_log) : a # b => apply_log[a] # apply_log[b])
  /\ [][ApplyAgain]_vars

\* a second /apply of an applied suggestion was answered 404, after another
\* suggestion was consumed without being applied
C26_Witness ==
  /\ Len(apply_log) = 1
  /\ Cardinality(answered) >= 2
  /\ response = HTTPException("apply", apply_log[1], 404)

\* C27: the id of every pending entry was returned to a client by /suggest.
C27_PendingDisclosed == PendingIds \subseteq disclosed

\* the pending entries of valid suggestions are disclosed
ValidPendingDisclosed ==
  \A id \in PendingIds : issued[id].is_valid = Some(TRUE) => id \in disclosed

====
